---- MODULE Spec2Model ----
(***************************************************************************)
(* latzero.core.memory.SharedMemoryPoolData: a key-value map serialized    *)
(* into a named shared-memory segment [L:8][C:8][payload], with expansion  *)
(* by migration to a larger segment, a process-local reader/writer lock    *)
(* and process-local striped key locks.                                    *)
(*                                                                         *)
(* Processes are "P" and "Q"; a thread is <<process, index>>.  Every       *)
(* statement of the source that reads or writes state shared with another  *)
(* thread or process (the segment header, the payload, self._data, the     *)
(* locks) is one step of the thread that runs it.                          *)
(***************************************************************************)
EXTENDS Integers, Sequences, FiniteSets, TLC

\* ---------------------------------------------------------------- constants
INITIAL_SIZE == 1024 * 1024
GROWTH_FACTOR == 2
MAX_SIZE == 100 * 1024 * 1024
HEADER_SIZE == 16
\* len(Serializer.serialize({})): the framing byte and the empty-map byte.
MapBase == 2

\* ------------------------------------------------------------------- bounds
\* The clock runs from 0 to MaxTime.
MaxTime == 2
\* Segments ever created (the original one and those made by expansion).
MaxSegs == 3
\* Calls of increment per thread.
MaxIncr == 2

\* ------------------------------------------------------------ universe
Procs == {"P", "Q"}
Tids == {<<"P", 1>>, <<"P", 2>>, <<"Q", 1>>}
NoTid == <<"-", 0>>
Keys == {"a", "ab"}
\* The key that comes first in the serialized map.
FirstKey == "a"
\* The keys in the order of the serialized map, and their characters.
KeyOrder == <<"a", "ab">>
KeyChars(k) == IF k = "a" THEN <<"a">> ELSE <<"a", "b">>
\* The prefixes keys_with_prefix is given.
Prefixes == {<<>>, <<"a">>, <<"a", "b">>, <<"b">>}
\* k.startswith(prefix)
StartsWith(k, prefix) ==
    /\ Len(prefix) <= Len(KeyChars(k))
    /\ SubSeq(KeyChars(k), 1, Len(prefix)) = prefix
\* get() returns None for an absent key.
Absent == 0 - 1
\* A value is serialized as two cells, v \div Radix and v % Radix.
Radix == 4
\* The largest value two cells hold.
MaxVal == Radix * Radix - 1

\* Record sizes (bytes a record adds to the serialized map).
SzSmall == 4 * HEADER_SIZE
SzMeg == INITIAL_SIZE
Sz3Meg == 3 * INITIAL_SIZE
Sz65Meg == 65 * INITIAL_SIZE
\* The record that makes the serialized map exactly MAX_SIZE - 16 bytes.
SzMaxOk == MAX_SIZE - HEADER_SIZE - MapBase
\* ... and exactly MAX_SIZE - 15 bytes.
SzMaxBad == SzMaxOk + 1

VARIABLES
    mode,      \* the scenario: which threads run, which inputs they draw
    now,       \* time.time()
    segs,      \* the shared-memory segments ever created, by id
    h,         \* h[p]: the SharedMemoryPoolData handle of process p
    rw,        \* rw[p]: self._lock, the pool reader/writer lock of p
    stripes,   \* stripes[p][k]: self._key_locks, the stripe lock of key k
    th,        \* th[t]: where thread t is in its operation, and its locals
    gabs,      \* history: the map a sequential caller expects
    glast,     \* history: per key, the last set that has returned
    gwritten,  \* history: per key, the values passed to set so far
    gprev,     \* history: the delete that returned last, if a delete did
    gincr,     \* history: the increments called so far and their sum
    gcommit,   \* history: the maps written completely so far, and the
               \* expanding write under way, if one is
    ser        \* a Serializer instance, the object it was last given, the
               \* bytes it returned and what deserialize made of them

vars == <<ser, mode, now, segs, h, rw, stripes, th, gabs, glast, gwritten, gprev, gincr, gcommit>>

\* ----------------------------------------------------------------- records
ProcOf(t) == t[1]

NoRec == [present |-> FALSE, enc |-> FALSE, v |-> 0, sz |-> 0,
          timestamp |-> 0, auto_clean |-> 0]

EmptyMap == [k \in Keys |-> NoRec]

KeysOf(m) == {k \in Keys : m[k].present}

\* 'enc:' + encrypted.hex(): four bytes and two hex digits per byte.
StoredSize(enc, sz) == IF enc THEN 4 + 2 * sz ELSE sz

\* encrypt_data(serialize(value), auth_key) as the 'enc:' string, and
\* deserialize(decrypt_data(bytes, auth_key)) of such a string, for the one
\* auth_key of the pool: decryption undoes encryption.
Encrypt(v) == 1000 + v
Decrypt(c) == c - 1000

\* Mutant of NewEntry: the value is stored as given, encryption or not.
NewEntryPlain(enc, v, sz, ts, ttl) ==
    [present |-> TRUE, enc |-> FALSE, v |-> v, sz |-> sz,
     timestamp |-> ts, auto_clean |-> ttl]

\* The record set() stores; `enc` says that the stored value is an 'enc:'
\* string.
NewEntry(enc, v, sz, ts, ttl) ==
    [present |-> TRUE, enc |-> enc, v |-> IF enc THEN Encrypt(v) ELSE v,
     sz |-> StoredSize(enc, sz), timestamp |-> ts, auto_clean |-> ttl]

\* Mutant of DelFrom: the record is emptied but the key stays.
DelFromKeep(m, k) == [m EXCEPT ![k].v = 0]

\* del self._data[key]
DelFrom(m, k) == [m EXCEPT ![k] = NoRec]

\* Mutant of Expired: the comparison is >= instead of >.
ExpiredGe(e, t) == e.auto_clean > 0 /\ t - e.timestamp >= e.auto_clean

\* if entry.get('auto_clean'): elapsed = time.time() - entry['timestamp'];
\* if elapsed > entry['auto_clean']
Expired(e, t) == e.auto_clean > 0 /\ t - e.timestamp > e.auto_clean

\* What get() returns for a record: the decrypted value when the handle
\* encrypts and the stored value starts with 'enc:', else the stored value.
ValueOf(e, encryption) ==
    IF encryption /\ e.enc THEN Decrypt(e.v) ELSE e.v

RECURSIVE SumSz(_, _)
SumSz(m, ks) ==
    IF ks = {} THEN 0
    ELSE LET k == CHOOSE x \in ks : TRUE IN m[k].sz + SumSz(m, ks \ {k})

\* len(self._serializer.serialize(data))
SerLen(m) == MapBase + SumSz(m, KeysOf(m))

\* The byte offsets of the records in the serialized map.
Layout(m) == [k \in Keys |-> m[k].sz]

\* A payload buffer is written in two halves; each half holds the bytes of
\* the map that was written there last (or the zeros of a fresh segment).
ZeroBuf == [front |-> EmptyMap, back |-> EmptyMap, fz |-> TRUE, bz |-> TRUE]

\* The bytes of two serialized maps with the same layout, the front half
\* from f and the back half from b; the halves meet inside the value of the
\* first record.
Mix(f, b) ==
    [k \in Keys |->
        IF k = FirstKey /\ f[k].present
        THEN [f[k] EXCEPT !.v = (f[k].v \div Radix) * Radix + (b[k].v % Radix)]
        ELSE b[k]]

\* self._serializer.deserialize(bytes(buf[16:16+length])), every exception
\* caught: the maps the read of `length` bytes of `buf` can decode to.
\*  - both halves from one map m: m when length is its length; a shorter
\*    read is truncated and fails; a longer read has trailing bytes, which
\*    the compact decoder rejects and a compressed payload ignores;
\*  - zeros, or halves of maps with different layouts: the decode fails;
\*  - halves of two maps with the same layout: their mixture.
DecodeOutcomes(buf, length) ==
    IF buf.fz \/ buf.bz THEN {EmptyMap}
    ELSE IF buf.front = buf.back
    THEN IF length = SerLen(buf.front) THEN {buf.front}
         ELSE IF length > SerLen(buf.front) THEN {EmptyMap, buf.front}
         ELSE {EmptyMap}
    ELSE IF Layout(buf.front) = Layout(buf.back) /\ length = SerLen(buf.front)
         THEN {Mix(buf.front, buf.back)}
         ELSE {EmptyMap}

\* The read of `length` bytes of `buf` cannot be decoded: deserialize raises
\* and _read_data returns {} from its except clause.
Undecodable(buf, length) ==
    \/ buf.fz \/ buf.bz
    \/ buf.front = buf.back /\ length < SerLen(buf.front)
    \/ buf.front # buf.back
         /\ ~(Layout(buf.front) = Layout(buf.back) /\ length = SerLen(buf.front))

\* Mutant of NewSize: the capacity is doubled once (`if` for `while`).
NewSizeOnce(cur, needed) ==
    IF cur < needed /\ cur < MAX_SIZE
    THEN (IF cur * GROWTH_FACTOR < MAX_SIZE THEN cur * GROWTH_FACTOR
          ELSE MAX_SIZE)
    ELSE cur

\* _expand_memory: new_size = self._current_size; while new_size < needed
\* and new_size < MAX_SIZE: new_size = min(new_size * GROWTH_FACTOR, MAX_SIZE)
RECURSIVE NewSize(_, _)
NewSize(cur, needed) ==
    IF cur < needed /\ cur < MAX_SIZE
    THEN NewSize(IF cur * GROWTH_FACTOR < MAX_SIZE THEN cur * GROWTH_FACTOR
                 ELSE MAX_SIZE, needed)
    ELSE cur

\* Mutant of CannotExpand: >= for >, a write of exactly MAX_SIZE fails.
CannotExpandGe(new_size, needed) == new_size >= MAX_SIZE /\ needed >= new_size

\* if new_size >= self.MAX_SIZE and needed_size > new_size: raise
CannotExpand(new_size, needed) == new_size >= MAX_SIZE /\ needed > new_size

\* f"{self.shm_name}_exp_{int(time.time() * 1000)}"
ExpName(name, t) == Append(name, t)

FreshSeg(name, size) ==
    [name |-> name, size |-> size, L |-> 0, C |-> 0, buf |-> ZeroBuf,
     linked |-> TRUE]

\* A segment as __init__ leaves it: created and holding the empty map.
InitSeg ==
    [name |-> <<>>, size |-> INITIAL_SIZE, L |-> MapBase, C |-> INITIAL_SIZE,
     buf |-> [front |-> EmptyMap, back |-> EmptyMap, fz |-> FALSE, bz |-> FALSE],
     linked |-> TRUE]

\* An unlinked segment that no handle maps any more: the OS frees its
\* memory.
Freed(sg) == [sg EXCEPT !.L = 0, !.C = 0, !.buf = ZeroBuf, !.linked = FALSE]

NameTaken(name) == \E i \in 1..Len(segs) : segs[i].linked /\ segs[i].name = name

\* --------------------------------------------------------------- Serializer
MSGPACK_HEADER == 1
PICKLE_HEADER == 2
COMPRESSED_FLAG == 128
\* The default of compress_threshold.
DefaultThreshold == 1024
\* The other values compress_threshold takes are -1 .. MaxThreshold.
MaxThreshold == 18

\* A Python object is [t |-> its type, x |-> its content]: 0 or 1 for a
\* bool, the number for an int, the code points for a str, the bytes for
\* a bytes, the items for a list, a tuple and a set, the <<key, value>>
\* pairs in insertion order for a dict.
PyNone == [t |-> "NoneType", x |-> 0]
PyBool(b) == [t |-> "bool", x |-> IF b THEN 1 ELSE 0]
PyInt(n) == [t |-> "int", x |-> n]
PyStr(s) == [t |-> "str", x |-> s]
PyBytes(s) == [t |-> "bytes", x |-> s]
PyList(s) == [t |-> "list", x |-> s]
PyTuple(s) == [t |-> "tuple", x |-> s]
PyDict(s) == [t |-> "dict", x |-> s]
PySet(s) == [t |-> "set", x |-> s]
\* An int outside the range -2^63 .. 2^64 - 1: x is its little-endian
\* two's complement bytes, as pickle's LONG1 holds them.
PyLong(s) == [t |-> "long", x |-> s]

Rep(c, n) == [i \in 1 .. n |-> c]
IsScalar(o) == o.t \in {"bool", "int", "str", "bytes"}

RECURSIVE Concat(_)
Concat(ss) == IF ss = <<>> THEN <<>> ELSE Head(ss) \o Concat(Tail(ss))

Pairs(s) == [i \in 1 .. (Len(s) \div 2) |-> <<s[2 * i - 1], s[2 * i]>>]
Unpaired(s) == Concat([i \in 1 .. Len(s) |-> <<s[i][1], s[i][2]>>])

NoObj == [ok |-> FALSE, v |-> PyNone, n |-> 0]
Obj(v, n) == [ok |-> TRUE, v |-> v, n |-> n]

\* msgpack.packb(obj, use_bin_type=True) of a bool (0xc2, 0xc3), an int
\* (positive fixint, uint 8), a str (fixstr) and a bytes (bin 8).
PackScalar(o) ==
    CASE o.t = "bool" -> <<194 + o.x>>
      [] o.t = "int" -> IF o.x < 128 THEN <<o.x>> ELSE <<204, o.x>>
      [] o.t = "str" -> <<160 + Len(o.x)>> \o o.x
      [] o.t = "bytes" -> <<196, Len(o.x)>> \o o.x

PackItems(s) == Concat([i \in 1 .. Len(s) |-> PackScalar(s[i])])

\* msgpack.packb(obj, use_bin_type=True): a list and a tuple are both a
\* fixarray, a dict is a fixmap; an int that does not fit 64 bits is an
\* OverflowError ("Integer value out of range"), any other type is a
\* TypeError (ok is FALSE, err the exception).
packb(o) ==
    CASE IsScalar(o) -> [ok |-> TRUE, b |-> PackScalar(o), err |-> "none"]
      [] o.t \in {"list", "tuple"} ->
            [ok |-> TRUE, b |-> <<144 + Len(o.x)>> \o PackItems(o.x),
             err |-> "none"]
      [] o.t = "dict" ->
            [ok |-> TRUE, b |-> <<128 + Len(o.x)>> \o PackItems(Unpaired(o.x)),
             err |-> "none"]
      [] o.t = "long" -> [ok |-> FALSE, b |-> <<>>, err |-> "OverflowError"]
      [] OTHER -> [ok |-> FALSE, b |-> <<>>, err |-> "TypeError"]

\* The scalar that starts at b[i] and the index after it.
UnpackScalar(b, i) ==
    IF i > Len(b) THEN NoObj
    ELSE LET c == b[i] IN
         CASE c < 128 -> Obj(PyInt(c), i + 1)
           [] c \in 160 .. 191 ->
                 IF i + (c - 160) <= Len(b)
                 THEN Obj(PyStr(SubSeq(b, i + 1, i + (c - 160))), i + 1 + (c - 160))
                 ELSE NoObj
           [] c \in {194, 195} -> Obj(PyBool(c = 195), i + 1)
           [] c = 196 ->
                 IF i + 1 <= Len(b) /\ i + 1 + b[i + 1] <= Len(b)
                 THEN Obj(PyBytes(SubSeq(b, i + 2, i + 1 + b[i + 1])), i + 2 + b[i + 1])
                 ELSE NoObj
           [] c = 204 -> IF i + 1 <= Len(b) THEN Obj(PyInt(b[i + 1]), i + 2) ELSE NoObj
           [] OTHER -> NoObj

RECURSIVE UnpackItems(_, _, _)
UnpackItems(b, i, n) ==
    IF n = 0 THEN Obj(<<>>, i)
    ELSE LET r == UnpackScalar(b, i) IN
         IF ~r.ok THEN NoObj
         ELSE LET rest == UnpackItems(b, r.n, n - 1) IN
              IF ~rest.ok THEN NoObj ELSE Obj(<<r.v>> \o rest.v, rest.n)

\* msgpack.unpackb(payload, raw=False): a fixarray is a list, a fixmap a
\* dict; bytes left over or missing are an error (ok is FALSE).
unpackb(b) ==
    LET c == b[1]
        r == CASE b = <<>> -> NoObj
               [] b # <<>> /\ c \in 144 .. 159 ->
                     LET s == UnpackItems(b, 2, c - 144) IN
                     IF s.ok THEN Obj(PyList(s.v), s.n) ELSE NoObj
               [] b # <<>> /\ c \in 128 .. 143 ->
                     LET s == UnpackItems(b, 2, 2 * (c - 128)) IN
                     IF s.ok THEN Obj(PyDict(Pairs(s.v)), s.n) ELSE NoObj
               [] OTHER -> UnpackScalar(b, 1)
    IN IF r.ok /\ r.n = Len(b) + 1 THEN [ok |-> TRUE, v |-> r.v]
       ELSE [ok |-> FALSE, v |-> PyNone]

\* pickle.dumps(obj, protocol=5) without memoization and framing: NEWTRUE,
\* NEWFALSE, BININT1, SHORT_BINUNICODE, SHORT_BINBYTES.
DumpScalar(o) ==
    CASE o.t = "bool" -> <<IF o.x = 1 THEN 136 ELSE 137>>
      [] o.t = "int" -> <<75, o.x>>
      [] o.t = "str" -> <<140, Len(o.x)>> \o o.x
      [] o.t = "bytes" -> <<67, Len(o.x)>> \o o.x

DumpItems(s) == Concat([i \in 1 .. Len(s) |-> DumpScalar(s[i])])

\* PROTO 5, the object, STOP.  A list is EMPTY_LIST MARK items APPENDS, a
\* tuple is its items and TUPLE1..TUPLE3, a dict is EMPTY_DICT MARK pairs
\* SETITEMS, a set is EMPTY_SET MARK items ADDITEMS.
dumps(o) ==
    LET body ==
          CASE IsScalar(o) -> DumpScalar(o)
            [] o.t = "list" ->
                  <<93>> \o (IF o.x = <<>> THEN <<>>
                             ELSE <<40>> \o DumpItems(o.x) \o <<101>>)
            [] o.t = "tuple" ->
                  IF o.x = <<>> THEN <<41>>
                  ELSE DumpItems(o.x) \o <<132 + Len(o.x)>>
            [] o.t = "dict" ->
                  <<125>> \o (IF o.x = <<>> THEN <<>>
                              ELSE <<40>> \o DumpItems(Unpaired(o.x)) \o <<117>>)
            [] o.t = "set" -> <<143, 40>> \o DumpItems(o.x) \o <<144>>
            [] o.t = "long" -> <<138, Len(o.x)>> \o o.x
    IN <<128, 5>> \o body \o <<46>>

LoadScalar(b, i) ==
    IF i > Len(b) THEN NoObj
    ELSE LET c == b[i] IN
         CASE c = 136 -> Obj(PyBool(TRUE), i + 1)
           [] c = 137 -> Obj(PyBool(FALSE), i + 1)
           [] c = 75 -> IF i + 1 <= Len(b) THEN Obj(PyInt(b[i + 1]), i + 2) ELSE NoObj
           [] c \in {140, 67, 138} ->
                 IF i + 1 <= Len(b) /\ i + 1 + b[i + 1] <= Len(b)
                 THEN Obj([t |-> IF c = 140 THEN "str"
                                 ELSE IF c = 67 THEN "bytes" ELSE "long",
                           x |-> SubSeq(b, i + 2, i + 1 + b[i + 1])],
                          i + 2 + b[i + 1])
                 ELSE NoObj
           [] OTHER -> NoObj

\* The scalars pushed from b[i] on, up to the first opcode that pushes
\* none, and the index of that opcode.
RECURSIVE LoadItems(_, _)
LoadItems(b, i) ==
    LET r == LoadScalar(b, i) IN
    IF ~r.ok THEN Obj(<<>>, i)
    ELSE LET rest == LoadItems(b, r.n) IN Obj(<<r.v>> \o rest.v, rest.n)

\* pickle.loads(payload) of what dumps writes; anything else is an error.
loads(b) ==
    LET n == Len(b)
        \* MARK at b[4], items, the closing opcode at b[n - 1]
        marked(close) ==
            LET s == LoadItems(b, 5) IN
            IF n >= 6 /\ b[4] = 40 /\ s.n = n - 1 /\ b[n - 1] = close
            THEN Obj(s.v, n) ELSE NoObj
        plain == LoadItems(b, 3)
        r == CASE n < 4 \/ b[1] # 128 \/ b[2] # 5 \/ b[n] # 46 -> NoObj
               [] OTHER ->
                  CASE b[3] = 93 ->
                          IF n = 4 THEN Obj(PyList(<<>>), n)
                          ELSE IF marked(101).ok THEN Obj(PyList(marked(101).v), n)
                          ELSE NoObj
                    [] b[3] = 125 ->
                          IF n = 4 THEN Obj(PyDict(<<>>), n)
                          ELSE IF marked(117).ok /\ Len(marked(117).v) % 2 = 0
                          THEN Obj(PyDict(Pairs(marked(117).v)), n)
                          ELSE NoObj
                    [] b[3] = 143 ->
                          IF marked(144).ok THEN Obj(PySet(marked(144).v), n)
                          ELSE NoObj
                    [] b[3] = 41 -> IF n = 4 THEN Obj(PyTuple(<<>>), n) ELSE NoObj
                    [] OTHER ->
                          IF plain.n = n /\ Len(plain.v) = 1
                          THEN Obj(plain.v[1], n)
                          ELSE IF /\ plain.n = n - 1
                                  /\ Len(plain.v) \in 1 .. 3
                                  /\ b[n - 1] = 132 + Len(plain.v)
                          THEN Obj(PyTuple(plain.v), n)
                          ELSE NoObj
    IN [ok |-> r.ok, v |-> r.v]

\* The length of the run of equal bytes that d starts with.
RunLen(d) ==
    CHOOSE n \in 1 .. Len(d) :
        /\ \A i \in 1 .. n : d[i] = d[1]
        /\ n = Len(d) \/ d[n + 1] # d[1]

RECURSIVE Runs(_)
Runs(d) ==
    IF d = <<>> THEN <<>>
    ELSE <<RunLen(d), d[1]>> \o Runs(SubSeq(d, RunLen(d) + 1, Len(d)))

RECURSIVE Inflate(_)
Inflate(z) ==
    IF Len(z) < 2 THEN <<>>
    ELSE Rep(z[2], z[1]) \o Inflate(SubSeq(z, 3, Len(z)))

RECURSIVE AdlerSums(_, _, _)
AdlerSums(d, a, b) ==
    IF d = <<>> THEN <<b \div 256, b % 256, a \div 256, a % 256>>
    ELSE AdlerSums(Tail(d), (a + Head(d)) % 65521,
                   (b + ((a + Head(d)) % 65521)) % 65521)

Adler32(d) == AdlerSums(d, 1, 0)

\* zlib.compress(data, level=1): the two header bytes, the data with every
\* run of equal bytes as <<length, byte>> (what DEFLATE does with a
\* repetition), and the Adler-32 checksum of the data.
compress(d) == <<120, 1>> \o Runs(d) \o Adler32(d)

\* zlib.decompress(payload); a bad header, length or checksum is zlib.error.
decompress(z) ==
    LET d == Inflate(SubSeq(z, 3, Len(z) - 4)) IN
    IF /\ Len(z) >= 6 /\ z[1] = 120 /\ z[2] = 1 /\ (Len(z) - 6) % 2 = 0
       /\ SubSeq(z, Len(z) - 3, Len(z)) = Adler32(d)
    THEN [ok |-> TRUE, d |-> d]
    ELSE [ok |-> FALSE, d |-> <<>>]

\* header & COMPRESSED_FLAG, header | COMPRESSED_FLAG, header & ~COMPRESSED_FLAG
HasFlag(header) == (header \div COMPRESSED_FLAG) % 2 = 1
SetFlag(header) == IF HasFlag(header) THEN header ELSE header + COMPRESSED_FLAG
ClearFlag(header) == IF HasFlag(header) THEN header - COMPRESSED_FLAG ELSE header

\* Serializer.__init__ where the import of msgpack went as has_msgpack says.
Serializer(prefer_msgpack, compress_threshold, has_msgpack) ==
    [use_msgpack |-> prefer_msgpack /\ has_msgpack,
     compress_threshold |-> compress_threshold]

\* serialize: the exception that leaves it, "none" when it returns.  The
\* try block around msgpack.packb catches (TypeError, ValueError) only.
SerializeError(self, obj) ==
    IF /\ self.use_msgpack /\ ~packb(obj).ok
       /\ packb(obj).err \notin {"TypeError", "ValueError"}
    THEN packb(obj).err
    ELSE "none"

\* serialize, up to the compression: data and header.
Encoded(self, obj) ==
    IF self.use_msgpack /\ packb(obj).ok
    THEN [data |-> packb(obj).b, header |-> MSGPACK_HEADER]
    ELSE [data |-> dumps(obj), header |-> PICKLE_HEADER]

\* The test with >= for >: a payload of exactly compress_threshold bytes is
\* compressed too.
TryCompressGe(compress_threshold, n) == compress_threshold >= 0 /\ n >= compress_threshold

\* if self._compress_threshold >= 0 and len(data) > self._compress_threshold
TryCompress(compress_threshold, n) == compress_threshold >= 0 /\ n > compress_threshold

serialize(self, obj) ==
    LET e == Encoded(self, obj)
        compressed == compress(e.data)
    IN IF /\ TryCompress(self.compress_threshold, Len(e.data))
          /\ Len(compressed) < Len(e.data)
       THEN <<SetFlag(e.header)>> \o compressed
       ELSE <<e.header>> \o e.data

deserialize(data) ==
    IF data = <<>> THEN [ok |-> TRUE, v |-> PyNone]
    ELSE LET header == data[1]
             z == decompress(Tail(data))
             payload == IF HasFlag(header) THEN z.d ELSE Tail(data)
         IN IF HasFlag(header) /\ ~z.ok THEN [ok |-> FALSE, v |-> PyNone]
            ELSE IF ClearFlag(header) = MSGPACK_HEADER THEN unpackb(payload)
            ELSE loads(payload)

\* The objects given to serialize.
PyObjs ==
    {PyBool(TRUE), PyBool(FALSE), PyInt(5), PyInt(200),
     PyStr(<<97>>), PyStr(Rep(120, 12)), PyStr(Rep(120, 13)),
     PyBytes(<<0, 255>>), PyBytes(Rep(0, 12)),
     PyList(<<>>), PyList(<<PyInt(1), PyInt(2), PyInt(3)>>),
     PyList(Rep(PyInt(7), 12)),
     PyTuple(<<PyInt(1), PyInt(2)>>),
     PyDict(<<<<PyStr(<<97>>), PyInt(1)>>, <<PyStr(<<98>>), PyInt(2)>>>>),
     PySet(<<PyInt(1)>>)}

Thresholds == ((0 - 1) .. MaxThreshold) \cup {DefaultThreshold}

NoSer ==
    [self |-> Serializer(FALSE, 0 - 1, FALSE), pc |-> "none", obj |-> PyNone,
     g_data |-> <<>>, blob |-> <<>>, length |-> 0, ok |-> TRUE, out |-> PyNone,
     encryption |-> FALSE, auth_key |-> 0, err |-> "none",
     g_set |-> FALSE, g_enc |-> FALSE, g_key |-> 0]

\* 'enc:', and the hexadecimal digits of str and bytes.
EncPrefix == <<101, 110, 99, 58>>
HexDigit(n) == IF n < 10 THEN 48 + n ELSE 87 + n
HexValue(c) ==
    IF c \in 48 .. 57 THEN c - 48
    ELSE IF c \in 97 .. 102 THEN c - 87
    ELSE IF c \in 65 .. 70 THEN c - 55
    ELSE 0 - 1

\* bytes.hex()
ToHex(b) == Concat([i \in 1 .. Len(b) |-> <<HexDigit(b[i] \div 16), HexDigit(b[i] % 16)>>])

\* bytes.fromhex(s): ValueError (ok is FALSE) on a character that is not a
\* hexadecimal digit or on an odd number of digits.
FromHex(x) ==
    IF Len(x) % 2 = 1 \/ \E i \in 1 .. Len(x) : HexValue(x[i]) < 0
    THEN [ok |-> FALSE, b |-> <<>>]
    ELSE [ok |-> TRUE,
          b |-> [i \in 1 .. (Len(x) \div 2) |->
                    16 * HexValue(x[2 * i - 1]) + HexValue(x[2 * i])]]

\* encrypt_data / decrypt_data of the encryption module: the ciphertext
\* carries a tag of the key; decrypting with another key, or a ciphertext
\* without its tag, raises (ok is FALSE).
encrypt_data(data, auth_key) ==
    <<auth_key>> \o [i \in 1 .. Len(data) |-> (data[i] + auth_key) % 256]
decrypt_data(enc_bytes, auth_key) ==
    IF enc_bytes = <<>> \/ enc_bytes[1] # auth_key
    THEN [ok |-> FALSE, d |-> <<>>]
    ELSE [ok |-> TRUE,
          d |-> [i \in 1 .. (Len(enc_bytes) - 1) |->
                    (enc_bytes[i + 1] + 256 - auth_key) % 256]]

\* set: the value stored in the record, 'enc:' + encrypted.hex() when the
\* handle encrypts.
StoredValue(self, encryption, auth_key, value) ==
    IF encryption
    THEN PyStr(EncPrefix \o ToHex(encrypt_data(serialize(self, value), auth_key)))
    ELSE value

\* get: what the statements after the expiry check do with the stored
\* value: the exception that leaves get (err), or the value returned.
GetValue(encryption, auth_key, value) ==
    IF /\ encryption /\ value.t = "str" /\ Len(value.x) >= 4
       /\ SubSeq(value.x, 1, 4) = EncPrefix
    THEN LET enc_bytes == FromHex(SubSeq(value.x, 5, Len(value.x)))
             decrypted == decrypt_data(enc_bytes.b, auth_key)
             out == deserialize(decrypted.d)
         IN IF ~enc_bytes.ok THEN [err |-> "ValueError", v |-> PyNone]
            ELSE IF ~decrypted.ok THEN [err |-> "DecryptionError", v |-> PyNone]
            ELSE IF ~out.ok THEN [err |-> "UnpackException", v |-> PyNone]
            ELSE [err |-> "none", v |-> out.v]
    ELSE [err |-> "none", v |-> value]

\* _read_data on a segment whose header length is `length` and whose payload
\* area starts with the bytes `buf`: {} when length is 0 or deserialize
\* raises, else whatever deserialize returns.
read_data(length, buf) ==
    IF length = 0 THEN PyDict(<<>>)
    ELSE LET r == deserialize(SubSeq(buf, 1, length)) IN
         IF r.ok THEN r.v ELSE PyDict(<<>>)

\* ------------------------------------------------------------- scenarios
Modes == {"seq", "cap", "thr", "incr", "procs", "exp", "ttl", "ro", "ser", "lst",
          "opn", "cln", "keys", "live", "torn", "rd", "dec",
          "race", "grow", "lnk", "use", "frm", "fb", "nul"}

ActiveTids(m) ==
    CASE m = "seq" -> {<<"P", 1>>}
      [] m = "cap" -> {<<"P", 1>>}
      [] m = "thr" -> {<<"P", 1>>, <<"P", 2>>}
      [] m = "incr" -> {<<"P", 1>>, <<"P", 2>>}
      [] m = "procs" -> {<<"P", 1>>, <<"Q", 1>>}
      [] m = "exp" -> {<<"P", 1>>, <<"P", 2>>, <<"Q", 1>>}
      [] m = "ttl" -> {<<"P", 1>>, <<"Q", 1>>}
      [] m = "ro" -> {<<"P", 1>>, <<"Q", 1>>}
      [] m = "ser" -> {}
      [] m = "lst" -> {<<"P", 1>>, <<"P", 2>>}
      [] m = "opn" -> {<<"P", 1>>, <<"Q", 1>>}
      [] m = "cln" -> {<<"P", 1>>, <<"P", 2>>}
      [] m = "keys" -> {<<"P", 1>>, <<"Q", 1>>}
      [] m = "live" -> {<<"P", 1>>, <<"P", 2>>}
      [] m = "torn" -> {<<"P", 1>>, <<"Q", 1>>}
      [] m = "rd" -> {}
      [] m = "dec" -> {}
      [] m = "race" -> {<<"P", 1>>, <<"Q", 1>>}
      [] m = "grow" -> {<<"P", 1>>, <<"Q", 1>>}
      [] m = "lnk" -> {<<"P", 1>>, <<"Q", 1>>}
      [] m = "use" -> {<<"P", 1>>, <<"P", 2>>}
      [] m = "frm" -> {<<"P", 1>>}
      [] m = "fb" -> {}
      [] m = "nul" -> {<<"P", 1>>}

Val(v, sz) == [v |-> v, sz |-> sz]

\* The values a set may be given.
InVals(m, t) ==
    CASE m = "seq" -> {Val(5, SzSmall), Val(10, SzSmall)}
      [] m = "cap" -> {Val(1, SzSmall), Val(2, SzMeg), Val(3, Sz3Meg),
                       Val(4, Sz65Meg), Val(5, SzMaxOk), Val(6, SzMaxBad)}
      [] m = "thr" -> {Val(5, SzSmall), Val(10, SzSmall)}
      [] m = "incr" -> {}
      [] m = "procs" -> IF t[1] = "P"
                        THEN {Val(5, SzSmall), Val(10, SzSmall), Val(3, SzMeg)}
                        ELSE {Val(5, SzSmall), Val(10, SzSmall)}
      [] m = "exp" -> {Val(5, SzSmall), Val(10, SzSmall), Val(3, SzMeg)}
      [] m = "ttl" -> {Val(5, SzSmall), Val(3, SzMeg)}
      [] m = "ro" -> {Val(5, SzSmall), Val(10, SzSmall)}
      [] m = "lst" -> {Val(5, SzSmall)}
      [] m = "opn" -> {Val(3, SzMeg)}
      [] m = "cln" -> {}
      [] m = "keys" -> IF t[1] = "P" THEN {Val(5, SzSmall), Val(10, SzSmall)}
                       ELSE {Val(5, SzSmall)}
      [] m = "live" -> {Val(5, SzSmall)}
      [] m = "torn" -> {Val(5, SzSmall)}
      [] m = "race" -> {Val(5, SzSmall)}
      [] m = "grow" -> {Val(3, SzMeg)}
      [] m = "lnk" -> {Val(3, SzMeg)}
      [] m = "use" -> {Val(3, SzMeg)}
      [] m = "frm" -> {Val(5, SzSmall)}
      [] m = "fb" -> {}
      [] m = "nul" -> {Val(5, SzSmall), Val(Absent, SzSmall)}

InTtls(m) == IF m \in {"seq", "ttl", "ro", "frm"} THEN {0, 1} ELSE {0}

\* The operations a thread calls and the keys it passes.
InOps(m, t) ==
    CASE m = "seq" ->
             {"get", "exists", "set", "delete", "size", "all_keys",
              "cleanup_expired"}
      [] m = "cap" ->
             {"get", "exists", "set", "delete", "size", "all_keys",
              "memory_usage"}
      [] m = "thr" -> IF t[2] = 1 THEN {"get", "set", "delete"}
                      ELSE {"get", "set", "size", "all_keys"}
      [] m = "incr" -> {}
      [] m = "procs" -> IF t[1] = "P" THEN {"get", "set", "delete"}
                        ELSE {"get", "set"}
      [] m = "exp" -> IF t = <<"P", 1>> THEN {"set"}
                      ELSE IF t = <<"P", 2>> THEN {"size"}
                      ELSE {"get"}
      [] m = "ttl" -> IF t[1] = "P" THEN {"set"} ELSE {"exists"}
      [] m = "ro" -> IF t[1] = "P" THEN {"set"} ELSE {"get"}
      [] m = "lst" -> IF t[2] = 1 THEN {"set", "delete"} ELSE {"all_keys"}
      [] m = "opn" -> IF t[1] = "P" THEN {"set"} ELSE {"get"}
      [] m = "cln" -> IF t[2] = 1 THEN {"cleanup_expired"}
                      ELSE {"size", "all_keys"}
      [] m = "keys" -> IF t[1] = "P" THEN {"set", "delete"}
                       ELSE {"set", "get"}
      [] m = "torn" -> IF t[1] = "P" THEN {"set"} ELSE {"get"}
      [] m = "race" -> IF t[1] = "P" THEN {"get"} ELSE {"set"}
      [] m = "grow" -> {"set"}
      [] m = "lnk" -> {"set"}
      [] m = "use" -> IF t[2] = 1 THEN {"set"} ELSE {"memory_usage", "size"}
      [] m = "fb" -> {}
      [] m = "nul" -> {"exists", "get", "set", "delete", "size", "all_keys"}
      [] m = "frm" ->
             {"get", "exists", "set", "delete", "size", "all_keys",
              "memory_usage", "cleanup_expired"}
      [] m = "live" -> IF t[2] = 1 THEN {"set", "cleanup_expired"}
                       ELSE {"get", "exists", "delete", "size", "all_keys"}

InKeys(m, t) ==
    CASE m \in {"seq", "cap", "lst", "frm", "nul"} -> Keys
      [] m = "thr" -> IF t[2] = 1 THEN {"a"} ELSE {"ab"}
      [] m = "keys" -> IF t[1] = "P" THEN {"a"} ELSE {"ab"}
      [] m = "live" -> IF t[2] = 1 THEN {"a"} ELSE Keys
      [] OTHER -> {"a"}

\* ------------------------------------------------------------------ state
NoLast == [known |-> FALSE, v |-> 0, p |-> "-", seg |-> 0, clean |-> FALSE,
           timestamp |-> 0, auto_clean |-> 0]

NoHandle == [shm |-> 0, shm_name |-> <<>>, cur_size |-> 0]

\* Mutant of UsageOf: the capacity is the one the pool was created with.
UsageInitial(length, current_size) ==
    [used_bytes |-> length, capacity_bytes |-> INITIAL_SIZE,
     max_bytes |-> MAX_SIZE]

\* memory_usage: the dict returned (without 'utilization', the quotient of
\* the first two).
UsageOf(length, current_size) ==
    [used_bytes |-> length, capacity_bytes |-> current_size,
     max_bytes |-> MAX_SIZE]

NoUsage == UsageOf(0, 0)

IdleThread ==
    [pc |-> "idle", op |-> "none", outer |-> "none", key |-> FirstKey,
     val |-> 0, sz |-> 0, ttl |-> 0, delta |-> 0,
     len |-> 0, img |-> EmptyMap, needed |-> 0, new_size |-> 0,
     new_seg |-> 0, old_seg |-> 0, shm_ref |-> 0,
     res |-> Absent, ok |-> FALSE, klist |-> <<>>, n |-> 0, err |-> "none",
     prefix |-> <<>>, usage |-> NoUsage,
     \* history: __init__ lost the race to create the segment
     g_lost |-> FALSE,
     to_remove |-> <<>>,
     g_fail |-> FALSE,
     g_again |-> FALSE,
     g_reads |-> 0,
     \* history: the clock value the operation read, the record it was
     \* expected to find, whether it ran alone, the map its refresh read
     g_t |-> 0, g_exp |-> NoLast, g_call |-> 0,
     g_solo |-> TRUE, g_map |-> EmptyMap, g_segs |-> <<>>, g_s |-> 0,
     \* history: the expansion under way when the operation was called and
     \* when it read the cached map (0: none), and the map being written
     g_w0 |-> 0, g_w1 |-> 0, g_post |-> EmptyMap,
     \* history: the segment, name and capacity of the handle at the call
     g_hd |-> NoHandle,
     \* history: the calls of _write_data the operation has made
     g_nw |-> 0]

\* No handle object: none was made yet, or it has been finalized (dead).
\* g_last is history: the last sets that had returned when __init__ began.
ClosedHandle ==
    [open |-> FALSE, shm |-> 0, shm_name |-> <<>>, cur_size |-> INITIAL_SIZE,
     is_creator |-> FALSE, encryption |-> FALSE, data |-> EmptyMap,
     dead |-> TRUE, g_last |-> [k \in Keys |-> NoLast]]

\* The handle after __init__: the creator made the segment, the others
\* attached to it; each read the empty map.
OpenHandle(creator, enc) ==
    [open |-> TRUE, shm |-> 1, shm_name |-> <<>>, cur_size |-> INITIAL_SIZE,
     is_creator |-> creator, encryption |-> enc, data |-> EmptyMap,
     dead |-> FALSE, g_last |-> [k \in Keys |-> NoLast]]

FreeLock == [owner |-> NoTid, depth |-> 0]

NoPrev == [del |-> FALSE, key |-> FirstKey, ok |-> FALSE, full |-> FALSE]

\* The pool holding map m0: the segment is as a completed write of m0
\* leaves it, and every handle has read m0.
InitState(m, enc, m0, sum0) ==
    /\ mode = m
    /\ segs = <<[InitSeg EXCEPT !.L = SerLen(m0), !.buf.front = m0,
                                !.buf.back = m0]>>
    /\ h = [p \in Procs |->
            IF p \in {ProcOf(t) : t \in ActiveTids(m)}
            THEN [OpenHandle(p = "P", enc) EXCEPT !.data = m0]
            ELSE ClosedHandle]
    /\ rw = [p \in Procs |-> [readers |-> {}, writer |-> NoTid]]
    /\ stripes = [p \in Procs |-> [k \in Keys |-> FreeLock]]
    /\ th = [t \in Tids |-> IdleThread]
    /\ gabs = EmptyMap
    /\ glast = [k \in Keys |-> NoLast]
    /\ gwritten = [k \in Keys |-> {}]
    /\ gprev = NoPrev
    /\ gincr = [sum |-> sum0, n |-> [t \in Tids |-> 0], waited |-> FALSE]
    /\ gcommit = [maps |-> {m0}, open |-> FALSE, nwin |-> 0, post |-> EmptyMap]

\* ... with the clock at 0.
InitPool(m, enc, m0, sum0) == InitState(m, enc, m0, sum0) /\ now = 0

InitWith(m, enc, m0, sum0) == InitPool(m, enc, m0, sum0) /\ ser = NoSer

\* The pool right after its creation.
InitFor(m, enc) == InitWith(m, enc, EmptyMap, 0)

\* Some handle maps segment i.
Mapped(i) == \E p \in Procs : h[p].open /\ h[p].shm = i

\* The name of the pool's segment, and the linked segment of a name.
PoolName == <<>>
SegNamed(name) ==
    CHOOSE i \in 1 .. Len(segs) : segs[i].linked /\ segs[i].name = name

\* ------------------------------------------------------------------ locks
\* StripedLock.acquire(key): the stripe of a key; the two keys of the model
\* hash to different stripes.  The lock is reentrant (increment holds it
\* around get and set, which take it again).
StripeFree(p, k, t) == stripes[p][k].owner \in {NoTid, t}

StripeTake(p, k, t) ==
    [stripes EXCEPT ![p][k] = [owner |-> t, depth |-> @.depth + 1]]

StripeDrop(p, k) ==
    [stripes EXCEPT ![p][k] =
        IF @.depth = 1 THEN FreeLock ELSE [@ EXCEPT !.depth = @ - 1]]

\* ReadWriteLock.read() / .write(): many readers or one writer.
CanRead(p) == rw[p].writer = NoTid
CanWrite(p) == rw[p].writer = NoTid /\ rw[p].readers = {}
ReadTake(p, t) == [rw EXCEPT ![p].readers = @ \cup {t}]
ReadDrop(p, t) == [rw EXCEPT ![p].readers = @ \ {t}]
WriteTake(p, t) == [rw EXCEPT ![p].writer = t]
WriteDrop(p) == [rw EXCEPT ![p].writer = NoTid]

UsesStripe(op) == op \in {"get", "set", "delete", "exists"}

\* Where an operation goes when its body is over: back to increment when
\* increment called it, else to its caller.
DonePc(r) ==
    IF r.op = "open" THEN "init_read"
    ELSE IF r.outer = "incr" /\ r.op = "get" /\ r.err = "none" THEN "incr_set"
    ELSE IF r.outer = "incr" THEN "incr_ret"
    ELSE "done"

\* Mutant of Leave: the stripe lock is kept when the with-block is left.
LeaveHeld(t, r) ==
    /\ th' = [th EXCEPT ![t] = [r EXCEPT !.pc = DonePc(r)]]
    /\ stripes' = stripes

\* Leave the `with self._key_locks.acquire(key)` block with thread record r.
Leave(t, r) ==
    /\ th' = [th EXCEPT ![t] = [r EXCEPT !.pc = DonePc(r)]]
    /\ stripes' = IF UsesStripe(r.op) THEN StripeDrop(ProcOf(t), r.key)
                  ELSE stripes

\* Mutant of AfterRefresh: set saves the map it has just refreshed, without
\* storing its entry first.
AfterRefreshNoPut(op) ==
    CASE op \in {"get", "exists"} -> "get_entry"
      [] op = "set" -> "sv_acq"
      [] op = "delete" -> "del_chk"
      [] op = "size" -> "size_len"
      [] op = "all_keys" -> "keys_list"
      [] op = "keys_with_prefix" -> "prefix_list"
      [] op = "cleanup_expired" -> "cl_scan"

\* The first statement after refresh() of each operation.
AfterRefresh(op) ==
    CASE op \in {"get", "exists"} -> "get_entry"
      [] op = "set" -> "set_put"
      [] op = "delete" -> "del_chk"
      [] op = "size" -> "size_len"
      [] op = "all_keys" -> "keys_list"
      [] op = "keys_with_prefix" -> "prefix_list"
      [] op = "cleanup_expired" -> "cl_scan"

TrackAbs == mode \in {"seq", "cap", "nul"}
TrackLast == mode \in {"thr", "procs", "ttl", "opn", "keys", "race"}
TrackWritten == mode \in {"procs"}
TrackCommit == mode \in {"exp"}
TrackMap == mode \in {"seq", "cap", "exp", "lst", "frm", "nul"}
TrackDecode == mode \in {"torn"}

Busy(t) == th[t].pc # "idle"

\* The number of the expanding write under way, 0 when there is none.
Expanding == IF TrackCommit /\ gcommit.open THEN gcommit.nwin ELSE 0

\* The thread record of a read at the statement that reads the cached map.
AtRead(t, r) ==
    IF TrackCommit
    THEN [r EXCEPT !.g_w1 = Expanding, !.g_post = gcommit.post,
                   !.g_map = h[ProcOf(t)].data]
    ELSE r

\* --------------------------------------------------------------- actions
\* A thread calls get, exists, set, delete, size or all_keys.
Call(t, op, k, val, ttl) ==
    /\ th[t].pc = "idle"
    /\ LET alone == \A u \in Tids \ {t} : ~Busy(u)
           r == [IdleThread EXCEPT
                   !.pc = IF UsesStripe(op) THEN "stripe"
                          ELSE IF op = "cleanup_expired" THEN "cl_time"
                          ELSE IF op = "memory_usage" THEN "mu_shm"
                          ELSE "rf_acq",
                   !.op = op, !.key = k, !.val = val.v, !.sz = val.sz,
                   !.ttl = ttl,
                   !.g_exp = IF TrackLast /\ op \in {"get", "exists"}
                             THEN glast[k] ELSE NoLast,
                   !.g_call = IF mode = "ttl" THEN now ELSE 0,
                   !.g_solo = IF TrackLast THEN alone ELSE TRUE,
                   !.g_segs = IF TrackAbs
                                 /\ op \in {"delete", "set", "cleanup_expired"}
                              THEN segs ELSE <<>>,
                   !.g_hd = IF TrackAbs /\ op = "set"
                            THEN [shm |-> h[ProcOf(t)].shm,
                                  shm_name |-> h[ProcOf(t)].shm_name,
                                  cur_size |-> h[ProcOf(t)].cur_size]
                            ELSE NoHandle,
                   !.g_w0 = Expanding]
       IN th' = [u \in Tids |->
                    IF u = t THEN r
                    ELSE IF TrackLast /\ Busy(u)
                         THEN [th[u] EXCEPT
                                 !.g_solo = FALSE,
                                 !.g_exp = IF op \in {"set", "delete"}
                                              /\ th[u].key = k
                                           THEN NoLast ELSE @]
                         ELSE th[u]]
    /\ glast' = IF TrackLast /\ op \in {"set", "delete"}
                THEN [glast EXCEPT ![k] = NoLast] ELSE glast
    /\ gwritten' = IF TrackWritten /\ op = "set"
                   THEN [gwritten EXCEPT ![k] = @ \cup {val.v}] ELSE gwritten
    /\ UNCHANGED <<ser, mode, now, segs, h, rw, stripes, gabs, gprev, gincr, gcommit>>

\* with self._key_locks.acquire(key):
AcqStripe(t) ==
    /\ th[t].pc = "stripe"
    /\ StripeFree(ProcOf(t), th[t].key, t)
    /\ stripes' = StripeTake(ProcOf(t), th[t].key, t)
    /\ th' = [th EXCEPT ![t] =
                IF @.op = "incr" THEN [@ EXCEPT !.op = "get"]
                ELSE [@ EXCEPT !.pc = "rf_acq"]]
    /\ UNCHANGED <<ser, mode, now, segs, h, rw, gabs, glast, gwritten, gprev, gincr, gcommit>>

\* refresh(): with self._lock.read():
RfAcq(t) ==
    /\ th[t].pc = "rf_acq"
    /\ CanRead(ProcOf(t))
    /\ rw' = ReadTake(ProcOf(t), t)
    /\ th' = [th EXCEPT ![t].pc = "rf_len"]
    /\ UNCHANGED <<ser, mode, now, segs, h, stripes, gabs, glast, gwritten, gprev, gincr, gcommit>>

\* _read_data: length = unpack(buf[:8]); if length == 0: return {}
RfLen(t) ==
    LET p == ProcOf(t)
        length == segs[h[p].shm].L
    IN /\ th[t].pc = "rf_len"
       /\ IF length = 0
          THEN /\ h' = [h EXCEPT ![p].data = EmptyMap]
               /\ rw' = ReadDrop(p, t)
               /\ th' = [th EXCEPT ![t].pc = AfterRefresh(th[t].op)]
          ELSE /\ th' = [th EXCEPT ![t].pc = "rf_pay", ![t].len = length]
               /\ UNCHANGED <<h, rw>>
       /\ UNCHANGED <<ser, mode, now, segs, stripes, gabs, glast, gwritten, gprev, gincr, gcommit>>

\* Mutant of RfPay: refresh() leaves its with-block without releasing the
\* pool lock.
RfPayHeld(t) ==
    LET p == ProcOf(t) IN
    /\ th[t].pc = "rf_pay"
    /\ \E m \in DecodeOutcomes(segs[h[p].shm].buf, th[t].len) :
          /\ h' = [h EXCEPT ![p].data = m]
          /\ th' = [th EXCEPT ![t].pc = AfterRefresh(th[t].op), ![t].len = 0,
                              ![t].g_map = IF TrackMap THEN m ELSE EmptyMap,
                              ![t].g_fail = TrackDecode /\
                                  Undecodable(segs[h[p].shm].buf, th[t].len),
                              ![t].g_reads = IF TrackDecode THEN @ + 1 ELSE @]
    /\ UNCHANGED <<ser, mode, now, segs, rw, stripes, gabs, glast, gwritten, gprev, gincr, gcommit>>

\* _read_data: deserialize(bytes(buf[16:16+length])); self._data = ...;
\* the read lock is released.
RfPay(t) ==
    LET p == ProcOf(t) IN
    /\ th[t].pc = "rf_pay"
    /\ \E m \in DecodeOutcomes(segs[h[p].shm].buf, th[t].len) :
          /\ h' = [h EXCEPT ![p].data = m]
          /\ th' = [th EXCEPT ![t].pc = AfterRefresh(th[t].op), ![t].len = 0,
                              ![t].g_map = IF TrackMap THEN m ELSE EmptyMap,
                              ![t].g_fail = TrackDecode /\
                                  Undecodable(segs[h[p].shm].buf, th[t].len),
                              ![t].g_reads = IF TrackDecode THEN @ + 1 ELSE @]
    /\ rw' = ReadDrop(p, t)
    /\ UNCHANGED <<ser, mode, now, segs, stripes, gabs, glast, gwritten, gprev, gincr, gcommit>>

\* get: entry = self._data.get(key); absent, expired or the value.
GetEntry(t) ==
    LET p == ProcOf(t)
        e == h[p].data[th[t].key]
        r == AtRead(t, [th[t] EXCEPT !.g_t = now])
    IN /\ th[t].pc = "get_entry"
       /\ IF ~e.present
          THEN Leave(t, [r EXCEPT !.res = Absent, !.ok = FALSE])
          ELSE IF Expired(e, now)
          THEN /\ th' = [th EXCEPT ![t] = [r EXCEPT !.pc = "get_del"]]
               /\ UNCHANGED stripes
          ELSE \* exists: return self.get(key) is not None
               Leave(t, [r EXCEPT !.res = ValueOf(e, h[p].encryption),
                                  !.ok = ValueOf(e, h[p].encryption) # Absent])
       /\ UNCHANGED <<ser, mode, now, segs, h, rw, gabs, glast, gwritten, gprev, gincr, gcommit>>

\* get: del self._data[key] (KeyError when another thread's refresh has
\* replaced the map by one without the key), then save().
GetDel(t) ==
    LET p == ProcOf(t) IN
    /\ th[t].pc = "get_del"
    /\ IF h[p].data[th[t].key].present
       THEN /\ h' = [h EXCEPT ![p].data = DelFrom(@, th[t].key)]
            /\ th' = [th EXCEPT ![t].pc = "sv_acq"]
            /\ UNCHANGED stripes
       ELSE /\ Leave(t, [th[t] EXCEPT !.err = "KeyError"])
            /\ UNCHANGED h
    /\ UNCHANGED <<ser, mode, now, segs, rw, gabs, glast, gwritten, gprev, gincr, gcommit>>

\* set: self._data[key] = {value, timestamp, auto_clean}
SetPut(t) ==
    LET p == ProcOf(t) IN
    /\ th[t].pc = "set_put"
    /\ h' = [h EXCEPT ![p].data[th[t].key] =
                NewEntry(h[p].encryption, th[t].val, th[t].sz, now, th[t].ttl)]
    /\ th' = [th EXCEPT ![t].pc = "sv_acq", ![t].g_t = now]
    /\ UNCHANGED <<ser, mode, now, segs, rw, stripes, gabs, glast, gwritten, gprev, gincr, gcommit>>

\* delete: if key in self._data: ... else return False
DelChk(t) ==
    LET p == ProcOf(t) IN
    /\ th[t].pc = "del_chk"
    /\ IF h[p].data[th[t].key].present
       THEN /\ th' = [th EXCEPT ![t].pc = "del_del"]
            /\ UNCHANGED stripes
       ELSE Leave(t, [th[t] EXCEPT !.ok = FALSE])
    /\ UNCHANGED <<ser, mode, now, segs, h, rw, gabs, glast, gwritten, gprev, gincr, gcommit>>

\* delete: del self._data[key], then save().
DelDel(t) ==
    LET p == ProcOf(t) IN
    /\ th[t].pc = "del_del"
    /\ IF h[p].data[th[t].key].present
       THEN /\ h' = [h EXCEPT ![p].data = DelFrom(@, th[t].key)]
            /\ th' = [th EXCEPT ![t].pc = "sv_acq"]
            /\ UNCHANGED stripes
       ELSE /\ Leave(t, [th[t] EXCEPT !.err = "KeyError"])
            /\ UNCHANGED h
    /\ UNCHANGED <<ser, mode, now, segs, rw, gabs, glast, gwritten, gprev, gincr, gcommit>>

\* size: return len(self._data)
SizeLen(t) ==
    /\ th[t].pc = "size_len"
    /\ th' = [th EXCEPT ![t] = AtRead(t, [@ EXCEPT !.pc = "done",
                           !.n = Cardinality(KeysOf(h[ProcOf(t)].data))])]
    /\ UNCHANGED <<ser, mode, now, segs, h, rw, stripes, gabs, glast, gwritten, gprev, gincr, gcommit>>

\* The keys of map m that start with prefix, as the list a walk over the
\* dict gives.
ListOf(m, prefix) ==
    SelectSeq(KeyOrder, LAMBDA k : m[k].present /\ StartsWith(k, prefix))

\* all_keys: return list(self._data.keys())
KeysList(t) ==
    /\ th[t].pc = "keys_list"
    /\ th' = [th EXCEPT ![t].pc = "done",
                        ![t].klist = ListOf(h[ProcOf(t)].data, <<>>)]
    /\ UNCHANGED <<ser, mode, now, segs, h, rw, stripes, gabs, glast, gwritten, gprev, gincr, gcommit>>

\* _expand_memory: old_shm.close() has run for segment i in process p: the
\* handle maps another segment and no thread of p stands between the
\* switch (240) and the close (245) of i.
ClosedByExpansion(p, i) ==
    /\ i # h[p].shm
    /\ \A u \in Tids :
          ProcOf(u) = p => ~(th[u].pc = "exp_close" /\ th[u].old_seg = i)

\* memory_usage: the attribute load self.shm of line 369, taken with no lock
\* held; the buffer of the object it yields is read in a later step.
UsageShm(t) ==
    /\ th[t].pc = "mu_shm"
    /\ th' = [th EXCEPT ![t].pc = "mu_len",
                        ![t].shm_ref = h[ProcOf(t)].shm]
    /\ UNCHANGED <<ser, mode, now, segs, h, rw, stripes, gabs, glast, gwritten, gprev, gincr, gcommit>>

\* memory_usage: length = struct.unpack('Q', bytes(self.shm.buf[:8]))[0]
\* on the object loaded before; a closed SharedMemory has buf None, and the
\* subscript raises TypeError.
UsageLen(t) ==
    /\ th[t].pc = "mu_len"
    /\ th' = IF ClosedByExpansion(ProcOf(t), th[t].shm_ref)
             THEN [th EXCEPT ![t].pc = "done", ![t].err = "TypeError"]
             ELSE [th EXCEPT ![t].pc = "mu_ret",
                             ![t].len = segs[th[t].shm_ref].L]
    /\ UNCHANGED <<ser, mode, now, segs, h, rw, stripes, gabs, glast, gwritten, gprev, gincr, gcommit>>

\* memory_usage: return {'used_bytes': length,
\*                       'capacity_bytes': self._current_size, ...}
UsageRet(t) ==
    /\ th[t].pc = "mu_ret"
    /\ th' = [th EXCEPT ![t].pc = "done", ![t].len = 0,
                        ![t].usage = UsageOf(th[t].len, h[ProcOf(t)].cur_size)]
    /\ UNCHANGED <<ser, mode, now, segs, h, rw, stripes, gabs, glast, gwritten, gprev, gincr, gcommit>>

\* A thread calls keys_with_prefix(prefix).
CallPrefix(t, prefix) ==
    /\ th[t].pc = "idle"
    /\ th' = [th EXCEPT ![t] = [IdleThread EXCEPT !.pc = "rf_acq",
                                   !.op = "keys_with_prefix",
                                   !.prefix = prefix]]
    /\ UNCHANGED <<ser, mode, now, segs, h, rw, stripes, gabs, glast, gwritten, gprev, gincr, gcommit>>

\* keys_with_prefix: return [k for k in self._data.keys()
\*                           if k.startswith(prefix)]
PrefixList(t) ==
    /\ th[t].pc = "prefix_list"
    /\ th' = [th EXCEPT ![t].pc = "done",
                        ![t].klist = ListOf(h[ProcOf(t)].data, th[t].prefix)]
    /\ UNCHANGED <<ser, mode, now, segs, h, rw, stripes, gabs, glast, gwritten, gprev, gincr, gcommit>>

\* Mutant of ToRemove: every record with a ttl is taken, elapsed or not.
ToRemoveTtl(m, current_time) == {k \in KeysOf(m) : m[k].auto_clean > 0}

\* cleanup_expired: the keys with auto_clean set and
\* current_time - timestamp > auto_clean
ToRemove(m, current_time) == {k \in KeysOf(m) : Expired(m[k], current_time)}

\* cleanup_expired: current_time = time.time()
ClTime(t) ==
    /\ th[t].pc = "cl_time"
    /\ th' = [th EXCEPT ![t].pc = "cl_acq", ![t].g_t = now]
    /\ UNCHANGED <<ser, mode, now, segs, h, rw, stripes, gabs, glast, gwritten, gprev, gincr, gcommit>>

\* cleanup_expired: with self._lock.write(): self._data = self._read_data()
ClAcq(t) ==
    /\ th[t].pc = "cl_acq"
    /\ CanWrite(ProcOf(t))
    /\ rw' = WriteTake(ProcOf(t), t)
    /\ th' = [th EXCEPT ![t].pc = "rf_len"]
    /\ UNCHANGED <<ser, mode, now, segs, h, stripes, gabs, glast, gwritten, gprev, gincr, gcommit>>

\* cleanup_expired: to_remove is the list of the expired keys; when it is
\* empty the write lock is released and 0 is returned.
ClScan(t) ==
    LET p == ProcOf(t)
        to_remove == ToRemove(h[p].data, th[t].g_t)
    IN /\ th[t].pc = "cl_scan"
       /\ th' = [th EXCEPT ![t].n = Cardinality(to_remove),
                           ![t].to_remove =
                               SelectSeq(KeyOrder, LAMBDA k : k \in to_remove),
                           ![t].pc = IF to_remove # {} THEN "cl_del" ELSE "done"]
       /\ rw' = IF to_remove # {} THEN rw ELSE WriteDrop(p)
       /\ UNCHANGED <<ser, mode, now, segs, h, stripes, gabs, glast, gwritten, gprev, gincr, gcommit>>

\* cleanup_expired: for key in to_remove: del self._data[key], one key;
\* after the last one, _write_data(self._data).
ClDel(t) ==
    LET p == ProcOf(t)
        key == Head(th[t].to_remove)
    IN /\ th[t].pc = "cl_del"
       /\ h' = [h EXCEPT ![p].data = DelFrom(@, key)]
       /\ th' = [th EXCEPT ![t].to_remove = Tail(@),
                           ![t].pc = IF Tail(th[t].to_remove) = <<>>
                                     THEN "wr_ser" ELSE "cl_del"]
       /\ UNCHANGED <<ser, mode, now, segs, rw, stripes, gabs, glast, gwritten, gprev, gincr, gcommit>>

\* save(): with self._lock.write():
SvAcq(t) ==
    /\ th[t].pc = "sv_acq"
    /\ CanWrite(ProcOf(t))
    /\ rw' = WriteTake(ProcOf(t), t)
    /\ th' = [th EXCEPT ![t].pc = "wr_ser"]
    /\ UNCHANGED <<ser, mode, now, segs, h, stripes, gabs, glast, gwritten, gprev, gincr, gcommit>>

\* _write_data: serialized = serialize(data); total_needed = len + 16;
\* if total_needed > self._current_size: self._expand_memory(total_needed)
WrSer(t) ==
    LET p == ProcOf(t)
        needed == SerLen(h[p].data) + HEADER_SIZE
    IN /\ th[t].pc = "wr_ser"
       /\ th' = [th EXCEPT ![t].img = h[p].data, ![t].needed = needed,
                           ![t].g_nw = IF TrackAbs THEN @ + 1 ELSE 0,
                           ![t].g_s = SerLen(h[p].data),
                           ![t].pc = IF needed > h[p].cur_size
                                     THEN "exp_calc" ELSE "wr_len"]
       /\ UNCHANGED <<ser, mode, now, segs, h, rw, stripes, gabs, glast, gwritten, gprev, gincr, gcommit>>

\* An exception leaves the `with` blocks: the write lock and the stripe
\* lock are released and the operation ends with the error.
Raise(t, err) ==
    /\ rw' = WriteDrop(ProcOf(t))
    /\ Leave(t, [th[t] EXCEPT !.err = err])

\* Mutant of ExpCalc: the length is stored in the header before the size
\* check raises.
ExpCalcDirty(t) ==
    LET p == ProcOf(t)
        new_size == NewSize(h[p].cur_size, th[t].needed)
    IN /\ th[t].pc = "exp_calc"
       /\ IF CannotExpand(new_size, th[t].needed)
          THEN /\ Raise(t, "MemoryFullError")
               /\ segs' = [segs EXCEPT ![h[p].shm].L = SerLen(th[t].img)]
          ELSE /\ th' = [th EXCEPT ![t].new_size = new_size,
                                   ![t].pc = "exp_create"]
               /\ UNCHANGED <<rw, stripes, segs>>
       /\ UNCHANGED <<ser, mode, now, h, gabs, glast, gwritten, gprev, gincr, gcommit>>

\* _expand_memory: the new size, or MemoryFullError.
ExpCalc(t) ==
    LET p == ProcOf(t)
        new_size == NewSize(h[p].cur_size, th[t].needed)
    IN /\ th[t].pc = "exp_calc"
       /\ IF CannotExpand(new_size, th[t].needed)
          THEN /\ Raise(t, "MemoryFullError")
               /\ UNCHANGED gcommit
          ELSE /\ th' = [th EXCEPT ![t].new_size = new_size,
                                   ![t].pc = "exp_create"]
               /\ gcommit' = IF TrackCommit
                             THEN [gcommit EXCEPT !.open = TRUE,
                                                  !.nwin = @ + 1,
                                                  !.post = th[t].img]
                             ELSE gcommit
               /\ UNCHANGED <<rw, stripes>>
       /\ UNCHANGED <<ser, mode, now, segs, h, gabs, glast, gwritten, gprev, gincr>>

\* _expand_memory: new_shm = SharedMemory(name=new_name, create=True,
\* size=new_size); FileExistsError when the name is taken.
ExpCreate(t) ==
    LET p == ProcOf(t)
        new_name == ExpName(h[p].shm_name, now)
    IN /\ th[t].pc = "exp_create"
       /\ IF NameTaken(new_name)
          THEN /\ Raise(t, "FileExistsError")
               /\ gcommit' = IF TrackCommit
                             THEN [gcommit EXCEPT !.open = FALSE,
                                                  !.post = EmptyMap]
                             ELSE gcommit
               /\ UNCHANGED segs
          ELSE /\ Len(segs) < MaxSegs
               /\ segs' = Append(segs, FreshSeg(new_name, th[t].new_size))
               /\ th' = [th EXCEPT ![t].new_seg = Len(segs) + 1,
                                   ![t].pc = "exp_copy"]
               /\ UNCHANGED <<rw, stripes, gcommit>>
       /\ UNCHANGED <<ser, mode, now, h, gabs, glast, gwritten, gprev, gincr>>

\* _expand_memory: old_length = unpack(self.shm.buf[:8]); if old_length > 0:
\* new_shm.buf[:16 + old_length] = self.shm.buf[:16 + old_length]
ExpCopy(t) ==
    LET old == segs[h[ProcOf(t)].shm] IN
    /\ th[t].pc = "exp_copy"
    /\ segs' = IF old.L > 0
               THEN [segs EXCEPT ![th[t].new_seg].L = old.L,
                                 ![th[t].new_seg].C = old.C,
                                 ![th[t].new_seg].buf = old.buf]
               ELSE segs
    /\ th' = [th EXCEPT ![t].pc = "exp_cap"]
    /\ UNCHANGED <<ser, mode, now, h, rw, stripes, gabs, glast, gwritten, gprev, gincr, gcommit>>

\* _expand_memory: new_shm.buf[8:16] = pack(new_size)
ExpCap(t) ==
    /\ th[t].pc = "exp_cap"
    /\ segs' = [segs EXCEPT ![th[t].new_seg].C = th[t].new_size]
    /\ th' = [th EXCEPT ![t].pc = "exp_switch"]
    /\ UNCHANGED <<ser, mode, now, h, rw, stripes, gabs, glast, gwritten, gprev, gincr, gcommit>>

\* _expand_memory: self.shm = new_shm; self.shm_name = new_name;
\* self._current_size = new_size
ExpSwitch(t) ==
    LET p == ProcOf(t) IN
    /\ th[t].pc = "exp_switch"
    /\ h' = [h EXCEPT ![p].shm = th[t].new_seg,
                      ![p].shm_name = segs[th[t].new_seg].name,
                      ![p].cur_size = th[t].new_size]
    /\ th' = [th EXCEPT ![t].old_seg = h[p].shm, ![t].pc = "exp_close"]
    /\ UNCHANGED <<ser, mode, now, segs, rw, stripes, gabs, glast, gwritten, gprev, gincr, gcommit>>

\* Mutant of ExpClose: the old segment is unlinked whoever expands.
ExpCloseUnlink(t) ==
    /\ th[t].pc = "exp_close"
    /\ segs' = [segs EXCEPT ![th[t].old_seg] =
                   IF Mapped(th[t].old_seg) THEN [@ EXCEPT !.linked = FALSE]
                   ELSE Freed(@)]
    /\ th' = [th EXCEPT ![t].pc = "wr_len"]
    /\ UNCHANGED <<ser, mode, now, h, rw, stripes, gabs, glast, gwritten, gprev, gincr, gcommit>>

\* _expand_memory: old_shm.close(); if self.is_creator: old_shm.unlink()
ExpClose(t) ==
    LET p == ProcOf(t) IN
    /\ th[t].pc = "exp_close"
    /\ segs' = IF h[p].is_creator
               THEN [segs EXCEPT ![th[t].old_seg] =
                       IF Mapped(th[t].old_seg) THEN [@ EXCEPT !.linked = FALSE]
                       ELSE Freed(@)]
               ELSE segs
    /\ th' = [th EXCEPT ![t].pc = "wr_len"]
    /\ UNCHANGED <<ser, mode, now, h, rw, stripes, gabs, glast, gwritten, gprev, gincr, gcommit>>

\* _write_data: self.shm.buf[:8] = pack(len(serialized))
WrLen(t) ==
    /\ th[t].pc = "wr_len"
    /\ segs' = [segs EXCEPT ![h[ProcOf(t)].shm].L = SerLen(th[t].img)]
    /\ th' = [th EXCEPT ![t].pc = "wr_cap"]
    /\ UNCHANGED <<ser, mode, now, h, rw, stripes, gabs, glast, gwritten, gprev, gincr, gcommit>>

\* _write_data: self.shm.buf[8:16] = pack(self._current_size)
WrCap(t) ==
    LET p == ProcOf(t) IN
    /\ th[t].pc = "wr_cap"
    /\ segs' = [segs EXCEPT ![h[p].shm].C = h[p].cur_size]
    /\ th' = [th EXCEPT ![t].pc = "wr_front"]
    /\ UNCHANGED <<ser, mode, now, h, rw, stripes, gabs, glast, gwritten, gprev, gincr, gcommit>>

\* _write_data: self.shm.buf[16:16 + len] = serialized, the first half of
\* the copy ...
WrFront(t) ==
    /\ th[t].pc = "wr_front"
    /\ segs' = [segs EXCEPT ![h[ProcOf(t)].shm].buf =
                   [@ EXCEPT !.front = th[t].img, !.fz = FALSE]]
    /\ th' = [th EXCEPT ![t].pc = "wr_back"]
    /\ UNCHANGED <<ser, mode, now, h, rw, stripes, gabs, glast, gwritten, gprev, gincr, gcommit>>

\* What the operation returns once save() is over.
Saved(r) ==
    CASE r.op \in {"get", "exists"} -> [r EXCEPT !.res = Absent, !.ok = FALSE]
      [] r.op = "delete" -> [r EXCEPT !.ok = TRUE]
      [] OTHER -> r

\* ... and the second half; the write lock is released and the operation
\* returns.
WrBack(t) ==
    /\ th[t].pc = "wr_back"
    /\ segs' = [segs EXCEPT ![h[ProcOf(t)].shm].buf =
                   [@ EXCEPT !.back = th[t].img, !.bz = FALSE]]
    /\ rw' = WriteDrop(ProcOf(t))
    /\ Leave(t, Saved(th[t]))
    /\ gcommit' = IF TrackCommit
                  THEN [gcommit EXCEPT !.maps = @ \cup {th[t].img},
                                       !.open = FALSE, !.post = EmptyMap]
                  ELSE gcommit
    /\ UNCHANGED <<ser, mode, now, h, gabs, glast, gwritten, gprev, gincr>>

\* SharedMemoryPoolData(shm_name): __init__ up to the `try`.
OpenCall(t) ==
    LET p == ProcOf(t) IN
    /\ th[t].pc = "idle"
    /\ h[p].dead
    /\ h' = [h EXCEPT ![p] = [ClosedHandle EXCEPT !.dead = FALSE,
                                                  !.g_last = glast]]
    /\ th' = [th EXCEPT ![t] = [IdleThread EXCEPT !.pc = "init_try",
                                                  !.op = "open"]]
    /\ UNCHANGED <<ser, mode, now, segs, rw, stripes, gabs, glast, gwritten, gprev, gincr, gcommit>>

\* The handle attached to the linked segment called PoolName.
Attached(hd) ==
    [hd EXCEPT !.open = TRUE, !.shm = SegNamed(PoolName),
               !.cur_size = segs[SegNamed(PoolName)].size]

\* __init__: self.shm = SharedMemory(name=shm_name, create=False);
\* self._current_size = len(self.shm.buf), or FileNotFoundError.
OpenTry(t) ==
    LET p == ProcOf(t) IN
    /\ th[t].pc = "init_try"
    /\ IF NameTaken(PoolName)
       THEN /\ h' = [h EXCEPT ![p] = Attached(@)]
            /\ th' = [th EXCEPT ![t].pc = "init_read"]
       ELSE /\ th' = [th EXCEPT ![t].pc = "init_create"]
            /\ UNCHANGED h
    /\ UNCHANGED <<ser, mode, now, segs, rw, stripes, gabs, glast, gwritten, gprev, gincr, gcommit>>

\* __init__: self.shm = SharedMemory(name=shm_name, create=True,
\* size=INITIAL_SIZE); self.is_creator = True; then self._write_data({}).
\* FileExistsError when another process has created the segment meanwhile.
OpenCreate(t) ==
    LET p == ProcOf(t) IN
    /\ th[t].pc = "init_create"
    /\ IF NameTaken(PoolName)
       THEN /\ th' = [th EXCEPT ![t].pc = "init_attach", ![t].g_lost = TRUE]
            /\ UNCHANGED <<h, segs>>
       ELSE /\ Len(segs) < MaxSegs
            /\ segs' = Append(segs, FreshSeg(PoolName, INITIAL_SIZE))
            /\ h' = [h EXCEPT ![p].open = TRUE, ![p].shm = Len(segs) + 1,
                              ![p].is_creator = TRUE,
                              ![p].cur_size = INITIAL_SIZE]
            /\ th' = [th EXCEPT ![t].pc = "wr_ser"]
    /\ UNCHANGED <<ser, mode, now, rw, stripes, gabs, glast, gwritten, gprev, gincr, gcommit>>

\* __init__, except FileExistsError: self.shm = SharedMemory(name=shm_name,
\* create=False); a FileNotFoundError here leaves the constructor.
OpenAttach(t) ==
    LET p == ProcOf(t) IN
    /\ th[t].pc = "init_attach"
    /\ IF NameTaken(PoolName)
       THEN /\ h' = [h EXCEPT ![p] = Attached(@)]
            /\ th' = [th EXCEPT ![t].pc = "init_read"]
       ELSE /\ h' = [h EXCEPT ![p] = ClosedHandle]
            /\ th' = [th EXCEPT ![t].pc = "done",
                                ![t].err = "FileNotFoundError"]
    /\ UNCHANGED <<ser, mode, now, segs, rw, stripes, gabs, glast, gwritten, gprev, gincr, gcommit>>

\* __init__: self._data = self._read_data()
OpenRead(t) ==
    LET p == ProcOf(t)
        sg == segs[h[p].shm]
    IN /\ th[t].pc = "init_read"
       /\ \E m \in (IF sg.L = 0 THEN {EmptyMap} ELSE DecodeOutcomes(sg.buf, sg.L)) :
             h' = [h EXCEPT ![p].data = m]
       /\ th' = [th EXCEPT ![t].pc = "done"]
       /\ UNCHANGED <<ser, mode, now, segs, rw, stripes, gabs, glast, gwritten, gprev, gincr, gcommit>>

\* close(), called by the owner or by __del__ when the handle object is
\* finalized (after a close() by the owner as well).
CloseCall(t, op) ==
    LET p == ProcOf(t) IN
    /\ th[t].pc = "idle"
    /\ ~h[p].dead
    /\ op = "close" => h[p].open
    /\ th' = [th EXCEPT ![t] = [IdleThread EXCEPT !.pc = "close_shm",
                                                  !.op = op,
                                                  !.g_again = ~h[p].open]]
    /\ UNCHANGED <<ser, mode, now, segs, h, rw, stripes, gabs, glast, gwritten, gprev, gincr, gcommit>>

\* close: self.shm.close(); the memory of an unlinked segment that no
\* handle maps any more is freed.
CloseShm(t) ==
    LET p == ProcOf(t)
        i == h[p].shm
        last == \A q \in Procs \ {p} : ~(h[q].open /\ h[q].shm = i)
    IN /\ th[t].pc = "close_shm"
       /\ h' = [h EXCEPT ![p].open = FALSE, ![p].dead = (th[t].op = "__del__")]
       /\ segs' = IF h[p].open /\ ~segs[i].linked /\ last
                  THEN [segs EXCEPT ![i] = Freed(@)] ELSE segs
       /\ th' = [th EXCEPT ![t].pc = IF h[p].is_creator THEN "unlink"
                                     ELSE "done"]
       /\ UNCHANGED <<ser, mode, now, rw, stripes, gabs, glast, gwritten, gprev, gincr, gcommit>>

\* close: if self.is_creator: self.shm.unlink(), which removes the name
\* self.shm_name, whatever segment carries it now; every exception is
\* swallowed.
Unlink(t) ==
    LET name == h[ProcOf(t)].shm_name IN
    /\ th[t].pc = "unlink"
    /\ segs' = [i \in 1 .. Len(segs) |->
                  IF segs[i].linked /\ segs[i].name = name
                  THEN (IF Mapped(i) THEN [segs[i] EXCEPT !.linked = FALSE]
                        ELSE Freed(segs[i]))
                  ELSE segs[i]]
    /\ th' = [th EXCEPT ![t].pc = "done"]
    /\ UNCHANGED <<ser, mode, now, h, rw, stripes, gabs, glast, gwritten, gprev, gincr, gcommit>>

\* The operation returns to its caller.
Return(t) ==
    LET r == th[t]
        p == ProcOf(t)
        good == r.err = "none"
    IN /\ r.pc = "done"
       /\ th' = [th EXCEPT ![t] = IdleThread]
       /\ gabs' = IF ~TrackAbs \/ ~good THEN gabs
                  ELSE IF r.op = "set"
                  THEN [gabs EXCEPT ![r.key] = NewEntry(FALSE, r.val, 0, r.g_t, r.ttl)]
                  ELSE IF r.op = "delete" THEN DelFrom(gabs, r.key)
                  ELSE gabs
       /\ glast' = IF TrackLast /\ good /\ r.op = "set"
                   THEN [glast EXCEPT ![r.key] =
                           [known |-> TRUE, v |-> r.val, p |-> p,
                            seg |-> h[p].shm, clean |-> r.g_solo,
                            timestamp |-> IF mode = "ttl" THEN r.g_t ELSE 0,
                            auto_clean |-> r.ttl]]
                   ELSE glast
       /\ gprev' = IF ~TrackAbs THEN gprev
                   ELSE IF r.op = "delete" /\ good
                   THEN [del |-> TRUE, key |-> r.key, ok |-> r.ok, full |-> FALSE]
                   ELSE IF r.op = "set" /\ r.err = "MemoryFullError"
                   THEN [del |-> FALSE, key |-> r.key, ok |-> FALSE, full |-> TRUE]
                   ELSE NoPrev
       /\ UNCHANGED <<ser, mode, now, segs, h, rw, stripes, gwritten, gincr, gcommit>>

\* increment(k, delta): with the stripe lock of k held, get(k) ...
CallIncr(t, k, delta) ==
    /\ th[t].pc = "idle"
    /\ gincr.n[t] < MaxIncr
    /\ th' = [th EXCEPT ![t] = [IdleThread EXCEPT !.pc = "stripe",
                                   !.op = "incr", !.outer = "incr",
                                   !.key = k, !.delta = delta]]
    /\ gincr' = [sum |-> gincr.sum + delta,
                 n |-> [gincr.n EXCEPT ![t] = @ + 1],
                 waited |-> gincr.waited \/ \E u \in Tids \ {t} : Busy(u)]
    /\ UNCHANGED <<ser, mode, now, segs, h, rw, stripes, gabs, glast, gwritten, gprev, gcommit>>

\* ... then set(k, current + delta), an absent key counting as 0 ...
IncrSet(t) ==
    /\ th[t].pc = "incr_set"
    /\ th' = [th EXCEPT ![t].op = "set", ![t].pc = "stripe",
                        ![t].val = (IF th[t].res = Absent THEN 0 ELSE th[t].res)
                                      + th[t].delta,
                        ![t].sz = SzSmall, ![t].ttl = 0]
    /\ UNCHANGED <<ser, mode, now, segs, h, rw, stripes, gabs, glast, gwritten, gprev, gincr, gcommit>>

\* ... and the stripe lock is released; the new value is returned.
IncrRet(t) ==
    /\ th[t].pc = "incr_ret"
    /\ stripes' = StripeDrop(ProcOf(t), th[t].key)
    /\ th' = [th EXCEPT ![t].pc = "done", ![t].op = "incr",
                        ![t].res = th[t].val]
    /\ UNCHANGED <<ser, mode, now, segs, h, rw, gabs, glast, gwritten, gprev, gincr, gcommit>>

\* The threads that use a client connected with readonly=True.
ReadOnlyTids == IF mode = "ro" THEN {<<"Q", 1>>} ELSE {}

\* A mutating operation of a read-only client: ReadOnlyError, and the data
\* layer is not called.
RoRefuse(t, op, k) ==
    /\ t \in ReadOnlyTids
    /\ th[t].pc = "idle"
    /\ th' = [th EXCEPT ![t] = [IdleThread EXCEPT !.pc = "done", !.op = op,
                                   !.key = k, !.err = "ReadOnlyError"]]
    /\ UNCHANGED <<ser, mode, now, segs, h, rw, stripes, gabs, glast, gwritten, gprev, gincr, gcommit>>

\* time.time() advances.
Tick ==
    /\ now < MaxTime
    /\ now' = now + 1
    /\ UNCHANGED <<ser, mode, segs, h, rw, stripes, th, gabs, glast, gwritten, gprev, gincr, gcommit>>

\* ---------------------------------------------------------- specifications
\* The arguments an operation takes; the others are fixed.
ArgKeys(t, op) == IF UsesStripe(op) THEN InKeys(mode, t) ELSE {FirstKey}
ArgVals(t, op) == IF op = "set" THEN InVals(mode, t) ELSE {Val(0, 0)}
ArgTtls(op) == IF op = "set" THEN InTtls(mode) ELSE {0}

Read(t) == RfAcq(t) \/ RfLen(t) \/ RfPay(t)
\* The bodies of get, set and delete on entries that never expire, the
\* bodies of size and all_keys, and all of them.
KeyBody(t) == GetEntry(t) \/ SetPut(t) \/ DelChk(t) \/ DelDel(t)
MapBody(t) == SizeLen(t) \/ KeysList(t)
Body(t) == KeyBody(t) \/ GetDel(t) \/ MapBody(t)
Write(t) == SvAcq(t) \/ WrSer(t) \/ WrLen(t) \/ WrCap(t) \/ WrFront(t)
               \/ WrBack(t)
Cleanup(t) == ClTime(t) \/ ClAcq(t) \/ ClScan(t) \/ ClDel(t)
Usage(t) == UsageShm(t) \/ UsageLen(t) \/ UsageRet(t)
Expand(t) == ExpCalc(t) \/ ExpCreate(t) \/ ExpCopy(t) \/ ExpCap(t)
                \/ ExpSwitch(t) \/ ExpClose(t)

CallAny(t) ==
    \E op \in InOps(mode, t) : \E k \in ArgKeys(t, op) :
        \E v \in ArgVals(t, op) : \E ttl \in ArgTtls(op) : Call(t, op, k, v, ttl)

\* One handle, one thread, small values, expiry, with and without
\* encryption.
InitSeq == \E enc \in BOOLEAN : InitFor("seq", enc)
NextSeq ==
    \/ \E t \in ActiveTids("seq") :
          CallAny(t) \/ AcqStripe(t) \/ Read(t) \/ Body(t) \/ Cleanup(t)
              \/ Write(t) \/ Return(t)
    \/ Tick
SpecSeq == InitSeq /\ [][NextSeq]_vars

\* One handle, one thread, records large enough to expand the segment up
\* to MAX_SIZE and beyond.
InitCap == InitFor("cap", FALSE)
NextCap ==
    \E t \in ActiveTids("cap") :
        CallAny(t) \/ AcqStripe(t) \/ Read(t) \/ KeyBody(t) \/ MapBody(t)
            \/ Usage(t) \/ Write(t) \/ Expand(t) \/ Return(t)
SpecCap == InitCap /\ [][NextCap]_vars

\* One process, two threads: the first works on key "a", the second on key
\* "ab" and on the whole map.
InitThr == InitFor("thr", FALSE)
NextThr ==
    \E t \in ActiveTids("thr") :
        CallAny(t) \/ AcqStripe(t) \/ Read(t) \/ KeyBody(t) \/ MapBody(t)
            \/ Write(t) \/ Return(t)
SpecThr == InitThr /\ [][NextThr]_vars

\* One process, two threads, each calling increment on key "a" up to
\* MaxIncr times, on a pool where "a" is absent or holds IncrStart.
IncrStart == 3
IncrDeltas == {1, 2}
StartMap == [EmptyMap EXCEPT ![FirstKey] = NewEntry(FALSE, IncrStart, SzSmall, 0, 0)]
InitIncr == InitFor("incr", FALSE) \/ InitWith("incr", FALSE, StartMap, IncrStart)
NextIncr ==
    \E t \in ActiveTids("incr") :
        \/ \E d \in IncrDeltas : CallIncr(t, FirstKey, d)
        \/ AcqStripe(t) \/ Read(t) \/ GetEntry(t) \/ IncrSet(t) \/ SetPut(t)
        \/ Write(t) \/ IncrRet(t) \/ Return(t)
SpecIncr == InitIncr /\ [][NextIncr]_vars

\* A writer thread that sets key "a" to small values and to one that needs
\* a larger segment, a second thread of its process that calls size, and
\* a second process that calls get.
InitExp == InitFor("exp", FALSE)
NextExp ==
    \E t \in ActiveTids("exp") :
        CallAny(t) \/ AcqStripe(t) \/ Read(t) \/ GetEntry(t) \/ SetPut(t)
            \/ SizeLen(t) \/ Write(t) \/ Expand(t) \/ Return(t)
SpecExp == InitExp /\ [][NextExp]_vars

\* A process that sets key "a" with and without a ttl, to a small value
\* and to one that needs a larger segment, and a second process that calls
\* get and exists, while the clock advances.
InitTtl == InitFor("ttl", FALSE)
NextTtl ==
    \/ \E t \in ActiveTids("ttl") :
          CallAny(t) \/ AcqStripe(t) \/ Read(t) \/ GetEntry(t) \/ GetDel(t)
              \/ SetPut(t) \/ Write(t) \/ Expand(t) \/ Return(t)
    \/ Tick
SpecTtl == InitTtl /\ [][NextTtl]_vars

\* A writer process that sets key "a" with and without a ttl and a second
\* process whose client is read-only: it calls get, and set and delete,
\* which are refused, while the clock advances.
InitRo == InitFor("ro", FALSE)
NextRo ==
    \/ \E t \in ActiveTids("ro") :
          \/ CallAny(t) \/ AcqStripe(t) \/ Read(t) \/ GetEntry(t) \/ GetDel(t)
          \/ SetPut(t) \/ Write(t) \/ Return(t)
          \/ \E op \in {"set", "delete"} : RoRefuse(t, op, FirstKey)
    \/ Tick
SpecRo == InitRo /\ [][NextRo]_vars

\* A Serializer of any configuration is given objects: serialize, then
\* deserialize of the bytes returned.
Serialize(obj) ==
    /\ mode \in {"ser", "fb"}
    /\ ser.pc \in {"new", "deserialized", "raised"}
    /\ ser' = IF SerializeError(ser.self, obj) = "none"
              THEN [ser EXCEPT !.pc = "serialized", !.obj = obj,
                               !.g_data = Encoded(ser.self, obj).data,
                               !.blob = serialize(ser.self, obj),
                               !.ok = TRUE, !.out = PyNone, !.err = "none"]
              ELSE [ser EXCEPT !.pc = "raised", !.obj = obj,
                               !.g_data = <<>>, !.blob = <<>>,
                               !.ok = FALSE, !.out = PyNone,
                               !.err = SerializeError(ser.self, obj)]
    /\ UNCHANGED <<mode, now, segs, h, rw, stripes, th, gabs, glast, gwritten, gprev, gincr, gcommit>>

Deserialize ==
    /\ mode \in {"ser", "fb"}
    /\ ser.pc = "serialized"
    /\ ser' = [ser EXCEPT !.pc = "deserialized",
                          !.ok = deserialize(ser.blob).ok,
                          !.out = deserialize(ser.blob).v]
    /\ UNCHANGED <<mode, now, segs, h, rw, stripes, th, gabs, glast, gwritten, gprev, gincr, gcommit>>

InitSer ==
    /\ InitPool("ser", FALSE, EmptyMap, 0)
    /\ \E prefer_msgpack \in BOOLEAN : \E has_msgpack \in BOOLEAN :
          \E compress_threshold \in Thresholds :
              ser = [NoSer EXCEPT
                       !.self = Serializer(prefer_msgpack, compress_threshold,
                                           has_msgpack),
                       !.pc = "new"]
NextSer == (\E obj \in PyObjs : Serialize(obj)) \/ Deserialize
SpecSer == InitSer /\ [][NextSer]_vars

\* One process, two threads: the first sets and deletes both keys, the
\* second lists the keys, all of them and those with a prefix.
InitLst == InitFor("lst", FALSE)
NextLst ==
    \/ \E t \in ActiveTids("lst") :
          CallAny(t) \/ AcqStripe(t) \/ Read(t) \/ SetPut(t) \/ DelChk(t)
              \/ DelDel(t) \/ KeysList(t) \/ PrefixList(t) \/ Write(t)
              \/ Return(t)
    \/ \E prefix \in Prefixes : CallPrefix(<<"P", 2>>, prefix)
SpecLst == InitLst /\ [][NextLst]_vars

\* Two processes whose handles are open at first: they close them, the
\* handle objects are finalized, they open the pool again; P sets key "a"
\* (one value needs a larger segment) and Q gets it.
Open(t) == OpenCall(t) \/ OpenTry(t) \/ OpenCreate(t) \/ OpenAttach(t)
               \/ OpenRead(t)
Close(t) == (\E op \in {"close", "__del__"} : CloseCall(t, op))
                \/ CloseShm(t) \/ Unlink(t)
InitOpn == InitFor("opn", FALSE)
NextOpn ==
    \E t \in ActiveTids("opn") :
        \/ h[ProcOf(t)].open /\ CallAny(t)
        \/ AcqStripe(t) \/ Read(t) \/ GetEntry(t) \/ SetPut(t) \/ Write(t)
        \/ Expand(t) \/ Open(t) \/ Close(t) \/ Return(t)
SpecOpn == InitOpn /\ [][NextOpn]_vars

\* One process whose pool holds both keys, set at time 0 with a ttl of 1:
\* one thread calls cleanup_expired, the other size and all_keys, while the
\* clock advances.
ExpiringMap == [k \in Keys |-> NewEntry(FALSE, 5, SzSmall, 0, 1)]
InitCln == InitWith("cln", FALSE, ExpiringMap, 0)
NextCln ==
    \/ \E t \in ActiveTids("cln") :
          CallAny(t) \/ Read(t) \/ MapBody(t) \/ Cleanup(t) \/ WrSer(t)
              \/ WrLen(t) \/ WrCap(t) \/ WrFront(t) \/ WrBack(t) \/ Return(t)
    \/ Tick
SpecCln == InitCln /\ [][NextCln]_vars

\* One process, two threads calling every operation, on the same key and on
\* different keys; the pool holds two records with a ttl, which have expired
\* or not.  Under SpecLive each thread that can take a step eventually takes
\* one, and a lock that becomes free again and again is eventually granted
\* to a thread that keeps requesting it.
InitLive ==
    /\ InitState("live", FALSE, ExpiringMap, 0)
    /\ ser = NoSer
    /\ now \in {0, MaxTime}
NextLive ==
    \E t \in ActiveTids("live") :
          CallAny(t) \/ CallPrefix(t, <<"a">>) \/ AcqStripe(t) \/ Read(t)
              \/ Body(t) \/ PrefixList(t) \/ Cleanup(t) \/ Write(t) \/ Return(t)
Acquire(t) == AcqStripe(t) \/ RfAcq(t) \/ SvAcq(t) \/ ClAcq(t)
Progress(t) ==
    RfLen(t) \/ RfPay(t) \/ Body(t) \/ PrefixList(t) \/ ClTime(t) \/ ClScan(t)
        \/ ClDel(t) \/ WrSer(t) \/ WrLen(t) \/ WrCap(t) \/ WrFront(t)
        \/ WrBack(t) \/ Return(t)
FairLive ==
    \A t \in ActiveTids("live") :
        WF_vars(Progress(t)) /\ SF_vars(Acquire(t))
SpecLive == InitLive /\ [][NextLive]_vars /\ FairLive

\* Two processes with one thread each on the same pool: P sets and deletes
\* key "a", Q sets and gets key "ab", small values.
InitKeys == InitFor("keys", FALSE)
NextKeys ==
    \E t \in ActiveTids("keys") :
        CallAny(t) \/ AcqStripe(t) \/ Read(t) \/ KeyBody(t) \/ Write(t)
            \/ Return(t)
SpecKeys == InitKeys /\ [][NextKeys]_vars

\* Two processes with one thread each on the same pool: P sets key "a", Q
\* gets it.
InitTorn == InitFor("torn", FALSE)
NextTorn ==
    \E t \in ActiveTids("torn") :
        CallAny(t) \/ AcqStripe(t) \/ Read(t) \/ GetEntry(t) \/ SetPut(t)
            \/ Write(t) \/ Return(t)
SpecTorn == InitTorn /\ [][NextTorn]_vars

\* _read_data on the bytes a process left in the segment: the serialized
\* form of an object under one of three serializers (msgpack, msgpack with
\* compression, pickle), with the header length 0, one short, or exact.
SegSerializers ==
    {Serializer(TRUE, 0 - 1, TRUE), Serializer(TRUE, 0, TRUE),
     Serializer(FALSE, 0 - 1, TRUE)}
InitRd ==
    /\ InitPool("rd", FALSE, EmptyMap, 0)
    /\ \E self \in SegSerializers : \E obj \in PyObjs :
          \E short \in {0, 1, Len(serialize(self, obj))} :
              ser = [NoSer EXCEPT
                       !.self = self, !.pc = "segment", !.obj = obj,
                       !.blob = serialize(self, obj),
                       !.length = Len(serialize(self, obj)) - short]
ReadData ==
    /\ mode = "rd"
    /\ ser.pc = "segment"
    /\ ser' = [ser EXCEPT !.pc = "read", !.out = read_data(ser.length, ser.blob)]
    /\ UNCHANGED <<mode, now, segs, h, rw, stripes, th, gabs, glast, gwritten, gprev, gincr, gcommit>>
NextRd == ReadData
SpecRd == InitRd /\ [][NextRd]_vars

\* get on a record whose stored value a set of some handle (with or without
\* encryption, with one of two keys) or another writer left, read by a handle
\* with or without encryption and with one of the two keys.
AuthKeys == {1, 2}
RawValues ==
    {PyStr(EncPrefix \o <<122, 122>>), PyStr(EncPrefix \o <<97, 98, 99>>),
     PyStr(EncPrefix),
     PyStr(EncPrefix \o ToHex(encrypt_data(<<1, 193>>, 1))),
     PyStr(<<101, 110, 99>>), PyInt(5)}
InitDec ==
    /\ InitPool("dec", FALSE, EmptyMap, 0)
    /\ \E encryption \in BOOLEAN : \E auth_key \in AuthKeys :
          \/ \E w_enc \in BOOLEAN : \E w_key \in AuthKeys : \E obj \in PyObjs :
                LET self == Serializer(TRUE, DefaultThreshold, TRUE) IN
                ser = [NoSer EXCEPT
                         !.self = self, !.pc = "stored",
                         !.obj = StoredValue(self, w_enc, w_key, obj),
                         !.blob = serialize(self, obj),
                         !.encryption = encryption, !.auth_key = auth_key,
                         !.g_set = TRUE, !.g_enc = w_enc, !.g_key = w_key]
          \/ \E value \in RawValues :
                ser = [NoSer EXCEPT
                         !.pc = "stored", !.obj = value,
                         !.encryption = encryption, !.auth_key = auth_key]
GetStored ==
    /\ mode = "dec"
    /\ ser.pc = "stored"
    /\ LET r == GetValue(ser.encryption, ser.auth_key, ser.obj) IN
       ser' = [ser EXCEPT !.pc = "got", !.err = r.err, !.out = r.v,
                          !.ok = r.err = "none"]
    /\ UNCHANGED <<mode, now, segs, h, rw, stripes, th, gabs, glast, gwritten, gprev, gincr, gcommit>>
NextDec == GetStored
SpecDec == InitDec /\ [][NextDec]_vars

\* No process has opened the pool yet and no segment exists; P and Q open
\* it, Q then sets key "a" and P gets it.
InitRace ==
    /\ mode = "race"
    /\ ser = NoSer
    /\ now = 0
    /\ segs = <<>>
    /\ h = [p \in Procs |-> ClosedHandle]
    /\ rw = [p \in Procs |-> [readers |-> {}, writer |-> NoTid]]
    /\ stripes = [p \in Procs |-> [k \in Keys |-> FreeLock]]
    /\ th = [t \in Tids |-> IdleThread]
    /\ gabs = EmptyMap
    /\ glast = [k \in Keys |-> NoLast]
    /\ gwritten = [k \in Keys |-> {}]
    /\ gprev = NoPrev
    /\ gincr = [sum |-> 0, n |-> [t \in Tids |-> 0], waited |-> FALSE]
    /\ gcommit = [maps |-> {EmptyMap}, open |-> FALSE, nwin |-> 0, post |-> EmptyMap]
NextRace ==
    \E t \in ActiveTids("race") :
        \/ h[ProcOf(t)].open /\ CallAny(t)
        \/ AcqStripe(t) \/ Read(t) \/ GetEntry(t) \/ SetPut(t) \/ Write(t)
        \/ Open(t) \/ Return(t)
SpecRace == InitRace /\ [][NextRace]_vars

\* Two processes on the same 1 MiB segment, each setting key "a" to a value
\* that needs a larger segment, while the clock advances or not.
InitGrow == InitFor("grow", FALSE)
NextGrow ==
    \/ \E t \in ActiveTids("grow") :
          CallAny(t) \/ AcqStripe(t) \/ Read(t) \/ SetPut(t) \/ Write(t)
              \/ Expand(t) \/ Return(t)
    \/ Tick
SpecGrow == InitGrow /\ [][NextGrow]_vars

\* The creator P and the non-creator Q on the same 1 MiB segment: each sets
\* key "a" to a value that needs a larger segment, and closes its handle
\* (the owner calls close(), the finalizer calls it again or alone).
InitLnk == InitFor("lnk", FALSE)
NextLnk ==
    \/ \E t \in ActiveTids("lnk") :
          \/ h[ProcOf(t)].open /\ CallAny(t)
          \/ AcqStripe(t) \/ Read(t) \/ SetPut(t) \/ Write(t) \/ Expand(t)
          \/ Close(t) \/ Return(t)
    \/ Tick
SpecLnk == InitLnk /\ [][NextLnk]_vars

\* Two processes with one thread each on the same pool, key "a", two small
\* values of the same size and one that needs a larger segment.
InitProcs == InitFor("procs", FALSE)
NextProcs ==
    \E t \in ActiveTids("procs") :
        CallAny(t) \/ AcqStripe(t) \/ Read(t) \/ KeyBody(t) \/ Write(t)
            \/ Expand(t) \/ Return(t)
SpecProcs == InitProcs /\ [][NextProcs]_vars

\* ------------------------------------------------------------------ claims
Returned(t, op) == th[t].pc = "done" /\ th[t].op = op /\ th[t].err = "none"

\* The map a reader decodes from the segment of handle p when nobody is
\* writing it.
Stored(p) ==
    LET sg == segs[h[p].shm] IN
    IF sg.L = 0 THEN EmptyMap
    ELSE CHOOSE m \in DecodeOutcomes(sg.buf, sg.L) : TRUE

\* C2: on one handle with no concurrent activity, get(k) returns the value
\* of the most recent set(k, .) when no delete(k) and no expiry of k came
\* after it, and absent otherwise, with and without encryption.
C2_GetReturnsLatest ==
    \A t \in ActiveTids(mode) :
        Returned(t, "get") =>
            LET e == gabs[th[t].key]
                live == e.present
                          /\ ~(e.auto_clean > 0
                                 /\ th[t].g_t - e.timestamp > e.auto_clean)
            IN th[t].res = IF live THEN e.v ELSE Absent

\* C2 witness: with encryption on, a get returns the value of a set with a
\* ttl that has not yet elapsed, one tick after the set.
C2_Witness ==
    \E t \in ActiveTids(mode) :
        /\ Returned(t, "get") /\ th[t].res # Absent
        /\ h[ProcOf(t)].encryption
        /\ gabs[th[t].key].auto_clean > 0
        /\ th[t].g_t > gabs[th[t].key].timestamp

\* C3: delete(k) returns true exactly when k was in the map read at the
\* start of the call, and then k is gone from the map and the segment; on
\* an absent key it returns false and leaves the cached map and every
\* segment as they were; a delete(k) right after a delete(k) changes nothing.
C3_Delete ==
    \A t \in ActiveTids(mode) :
        Returned(t, "delete") =>
            LET p == ProcOf(t)
                k == th[t].key
            IN /\ th[t].ok = th[t].g_map[k].present
               /\ th[t].ok =>
                     /\ h[p].data = DelFrom(th[t].g_map, k)
                     /\ Stored(p) = h[p].data
                     /\ ~Stored(p)[k].present
               /\ ~th[t].ok => (segs = th[t].g_segs /\ h[p].data = th[t].g_map)
               /\ (gprev.del /\ gprev.key = k) =>
                     (~th[t].ok /\ segs = th[t].g_segs)

\* C3 witness: a delete(k) that removed k is followed by a second
\* delete(k), which returns false.
C3_Witness ==
    \E t \in ActiveTids(mode) :
        /\ Returned(t, "delete") /\ ~th[t].ok
        /\ gprev.del /\ gprev.key = th[t].key /\ gprev.ok

\* C8: for every live segment, L + 16 <= C <= MAX_SIZE in every reachable
\* state, the states between the header and payload writes included.
C8_HeaderInvariant ==
    \A i \in 1..Len(segs) :
        segs[i].linked =>
            (segs[i].L + HEADER_SIZE <= segs[i].C /\ segs[i].C <= MAX_SIZE)

\* INITIAL_SIZE * 2^k
RECURSIVE Doubled(_)
Doubled(k) == IF k = 0 THEN INITIAL_SIZE ELSE 2 * Doubled(k - 1)
PowerSizes == {Doubled(k) : k \in 0..7}
\* min(INITIAL_SIZE * 2^k, MAX_SIZE)
CappedSizes == {IF c < MAX_SIZE THEN c ELSE MAX_SIZE : c \in PowerSizes}

\* The header capacity of the segment handle p maps.
CapacityOf(p) == segs[h[p].shm].C

\* C9 as stated: after a successful set whose serialized map has size s,
\* C >= 16 + s and C = INITIAL_SIZE * 2^k for some k >= 0.
C9_PowerOfTwo ==
    \A t \in ActiveTids(mode) :
        Returned(t, "set") =>
            /\ CapacityOf(ProcOf(t)) >= HEADER_SIZE + th[t].g_s
            /\ CapacityOf(ProcOf(t)) \in PowerSizes

\* C9 amended: after a successful set whose serialized map has size s,
\* C >= 16 + s and C = min(INITIAL_SIZE * 2^k, MAX_SIZE) for some k >= 0;
\* when the set expanded the segment, C is the smallest such size that is
\* >= the needed size.
C9_CappedDoubling ==
    \A t \in ActiveTids(mode) :
        Returned(t, "set") =>
            LET c == CapacityOf(ProcOf(t)) IN
            /\ c >= HEADER_SIZE + th[t].g_s
            /\ c = h[ProcOf(t)].cur_size
            /\ c \in CappedSizes
            /\ th[t].new_seg # 0 =>
                  \A d \in CappedSizes : d >= th[t].needed => c <= d

\* C9 witness: a set has expanded a segment that an earlier set had
\* already expanded, skipping at least one doubling.
C9_Witness ==
    \E t \in ActiveTids(mode) :
        /\ Returned(t, "set") /\ th[t].new_seg # 0 /\ th[t].old_seg > 1
        /\ CapacityOf(ProcOf(t)) > 2 * segs[th[t].old_seg].size

\* C10: a write whose serialized payload has exactly MAX_SIZE - 16 bytes
\* succeeds, and one of MAX_SIZE - 15 bytes or more fails with
\* MemoryFullError, from any current capacity.
C10_Boundary ==
    \A t \in ActiveTids(mode) :
        (th[t].pc = "done" /\ th[t].op = "set") =>
            /\ th[t].g_s = MAX_SIZE - HEADER_SIZE =>
                  (th[t].err = "none"
                     /\ segs[h[ProcOf(t)].shm].L = MAX_SIZE - HEADER_SIZE
                     /\ Stored(ProcOf(t)) = th[t].img)
            /\ th[t].g_s > MAX_SIZE - HEADER_SIZE =>
                  th[t].err = "MemoryFullError"

\* C10 witness: a write of MAX_SIZE - 15 bytes fails on a segment that
\* holds a payload of exactly MAX_SIZE - 16 bytes, written earlier.
C10_Witness ==
    \E t \in ActiveTids(mode) :
        /\ th[t].pc = "done" /\ th[t].op = "set"
        /\ th[t].err = "MemoryFullError"
        /\ th[t].g_s = MAX_SIZE - HEADER_SIZE + 1
        /\ segs[h[ProcOf(t)].shm].L = MAX_SIZE - HEADER_SIZE

\* C4: within one process the operations on a key are linearizable; in
\* particular, once set(k, v) has returned, a later get(k) of that process
\* returns v unless another set(k) or delete(k) or an expiry intervened,
\* whatever other threads do on other keys.
C4_Linearizable ==
    \A t \in ActiveTids(mode) :
        (Returned(t, "get") /\ th[t].g_exp.known
           /\ th[t].g_exp.p = ProcOf(t)) =>
            th[t].res = th[t].g_exp.v

\* C1: once a set(k, v) by P has returned and no other write to k follows
\* it, the next get(k) issued by another process Q returns v, after any
\* history of earlier operations by either of them.  (Here the set and the
\* get each ran with no other operation in progress.)
C1_VisibleAnyHistory ==
    \A t \in ActiveTids(mode) :
        (Returned(t, "get") /\ th[t].g_solo /\ th[t].g_exp.known
           /\ th[t].g_exp.clean /\ th[t].g_exp.p # ProcOf(t)) =>
            th[t].res = th[t].g_exp.v

\* The part of C1 that holds: the same, when the reader maps the segment
\* the writer wrote to (no expansion has moved the writer to another one).
VisibleSameSegment ==
    \A t \in ActiveTids(mode) :
        (Returned(t, "get") /\ th[t].g_solo /\ th[t].g_exp.known
           /\ th[t].g_exp.clean /\ th[t].g_exp.p # ProcOf(t)
           /\ th[t].g_exp.seg = h[ProcOf(t)].shm) =>
            th[t].res = th[t].g_exp.v

\* C6: every get(k) returns absent or a value that some set(k, .) called
\* so far was given, for any interleaving of the header and payload writes
\* of two processes.
C6_OnlyWrittenValues ==
    \A t \in ActiveTids(mode) :
        Returned(t, "get") =>
            (th[t].res = Absent \/ th[t].res \in gwritten[th[t].key])

\* C5: when the threads of one process have each called increment(k, d)
\* some number of times, concurrently, and every call has returned, the
\* value of k is the initial value (0 when k was absent) plus the sum of
\* the deltas.
C5_NoLostIncrement ==
    (\A t \in ActiveTids(mode) : th[t].pc \in {"idle", "done"}) =>
        LET e == Stored("P")[FirstKey] IN
        /\ h["P"].data = Stored("P")
        /\ IF e.present THEN e.v = gincr.sum
           ELSE gincr.sum = 0 /\ \A t \in ActiveTids(mode) : gincr.n[t] = 0
        /\ \A t \in ActiveTids(mode) :
              th[t].pc = "done" => th[t].res <= gincr.sum

\* C5 witness: both threads have called increment twice, one of the calls
\* was made while the other thread was inside its own, and all have
\* returned.
C5_Witness ==
    /\ \A t \in ActiveTids(mode) : th[t].pc = "idle" /\ gincr.n[t] >= 2
    /\ gincr.waited
    /\ Stored("P")[FirstKey].v = gincr.sum

\* C7: every read that another thread or process completes while a write
\* expands the segment returns a map that was the committed content of the
\* pool at some moment or the map the expanding write commits, never a
\* mixture of two maps.
C7_ReadsDuringExpansion ==
    \A t \in ActiveTids(mode) :
        (th[t].pc = "done" /\ th[t].op \in {"get", "size"} /\ th[t].g_w1 # 0) =>
            th[t].g_map \in gcommit.maps \cup {th[t].g_post}

\* The part of C7 that holds: a read that is called and completes during
\* one expanding write returns the pool's content before that write or
\* after it.
ReadsInsideExpansion ==
    \A t \in ActiveTids(mode) :
        (th[t].pc = "done" /\ th[t].op \in {"get", "size"} /\ th[t].g_w1 # 0
           /\ th[t].g_w0 = th[t].g_w1) =>
            th[t].g_map \in gcommit.maps \cup {th[t].g_post}

\* C11: when a set fails with MemoryFullError, every segment (header and
\* payload), the segment the handle maps, its name and its capacity are as
\* they were at the call and no segment was created; the operations that
\* follow return what they return without the failed set (gabs leaves
\* failed sets out).
C11_FailedSetNoTrace ==
    \A t \in ActiveTids(mode) :
        LET p == ProcOf(t) IN
        /\ (th[t].pc = "done" /\ th[t].op = "set"
              /\ th[t].err = "MemoryFullError") =>
               /\ segs = th[t].g_segs
               /\ h[p].shm = th[t].g_hd.shm
               /\ h[p].shm_name = th[t].g_hd.shm_name
               /\ h[p].cur_size = th[t].g_hd.cur_size
        /\ Returned(t, "get") =>
               th[t].res = (IF gabs[th[t].key].present THEN gabs[th[t].key].v
                            ELSE Absent)
        /\ Returned(t, "size") => th[t].n = Cardinality(KeysOf(gabs))
        /\ Returned(t, "all_keys") =>
               {th[t].klist[i] : i \in 1 .. Len(th[t].klist)} = KeysOf(gabs)
        /\ Returned(t, "delete") => th[t].ok = gabs[th[t].key].present
        /\ (th[t].pc = "idle" /\ gprev.full) => Stored(p) = [k \in Keys |->
               IF gabs[k].present
               THEN [gabs[k] EXCEPT !.sz = Stored(p)[k].sz] ELSE NoRec]

\* C11 witness: a get of a key that holds a value returns it right after a
\* set of that key has failed with MemoryFullError.
C11_Witness ==
    \E t \in ActiveTids(mode) :
        /\ Returned(t, "get") /\ th[t].res # Absent
        /\ gprev.full /\ gprev.key = th[t].key

\* C12: for a record created by set(k, v, ttl) with ttl > 0 at time t0 and
\* not overwritten since, every get(k) and exists(k) called at a time
\* greater than t0 + ttl reports the key absent, from any process.
C12_ExpiredIsAbsent ==
    \A t \in ActiveTids(mode) :
        (th[t].pc = "done" /\ th[t].op \in {"get", "exists"}
           /\ th[t].g_exp.known /\ th[t].g_exp.auto_clean > 0
           /\ th[t].g_call > th[t].g_exp.timestamp + th[t].g_exp.auto_clean) =>
            (th[t].err = "none" /\ th[t].res = Absent /\ ~th[t].ok)

\* The part of C12 that holds: the same for a reader that maps the segment
\* the record was written to, the set and the read each running alone.
ExpiredIsAbsentSameSegment ==
    \A t \in ActiveTids(mode) :
        (th[t].pc = "done" /\ th[t].op \in {"get", "exists"}
           /\ th[t].g_exp.known /\ th[t].g_exp.auto_clean > 0
           /\ th[t].g_call > th[t].g_exp.timestamp + th[t].g_exp.auto_clean
           /\ th[t].g_solo /\ th[t].g_exp.clean
           /\ th[t].g_exp.seg = h[ProcOf(t)].shm) =>
            (th[t].err = "none" /\ th[t].res = Absent /\ ~th[t].ok)

\* C13: cleanup_expired reads the records set so far that no expiry has
\* removed yet, removes exactly those whose ttl had elapsed at its
\* current_time, leaves the others as they were,
\* returns the number removed, and calls _write_data once when that number
\* is positive (the segment then holds the remaining records) and leaves
\* every segment untouched when it is 0.
C13_CleanupExpired ==
    \A t \in ActiveTids(mode) :
        Returned(t, "cleanup_expired") =>
            LET p == ProcOf(t)
                m0 == th[t].g_map
                gone == {k \in Keys : /\ m0[k].present /\ m0[k].auto_clean > 0
                                      /\ th[t].g_t - m0[k].timestamp
                                            > m0[k].auto_clean}
            IN /\ \A k \in Keys :
                     /\ m0[k].present =>
                           /\ gabs[k].present
                           /\ m0[k].timestamp = gabs[k].timestamp
                           /\ m0[k].auto_clean = gabs[k].auto_clean
                     /\ (gabs[k].present /\ ~m0[k].present) =>
                           /\ gabs[k].auto_clean > 0
                           /\ th[t].g_t - gabs[k].timestamp > gabs[k].auto_clean
               /\ h[p].data = [k \in Keys |-> IF k \in gone THEN NoRec ELSE m0[k]]
               /\ th[t].n = Cardinality(gone)
               /\ Stored(p) = h[p].data
               /\ th[t].n > 0 => th[t].g_nw = 1
               /\ th[t].n = 0 => (th[t].g_nw = 0 /\ segs = th[t].g_segs)

\* C13 witness: of two records with a ttl, written at different times,
\* cleanup_expired removed the older and kept the younger.
C13_Witness ==
    \E t \in ActiveTids(mode) :
        /\ Returned(t, "cleanup_expired") /\ th[t].n = 1
        /\ \E k \in Keys : h[ProcOf(t)].data[k].present
                               /\ h[ProcOf(t)].data[k].auto_clean > 0

\* The values callers pass to set.
PlainValues == 0..MaxVal

\* The records in the payload of a segment, in either half of the buffer.
PayloadRecords(sg) ==
    {sg.buf.front[k] : k \in KeysOf(sg.buf.front)}
        \cup {sg.buf.back[k] : k \in KeysOf(sg.buf.back)}

\* C14: in a pool opened with encryption, in every reachable state every
\* record value in the payload of every segment is an 'enc:' string of a
\* ciphertext, never the value a caller passed to set.
C14_NoPlaintext ==
    (\A p \in Procs : h[p].open => h[p].encryption) =>
        \A i \in 1..Len(segs) : \A e \in PayloadRecords(segs[i]) :
            /\ e.enc
            /\ e.v \notin PlainValues
            /\ Decrypt(e.v) \in PlainValues

\* C14 witness: with encryption on, the segment holds a record whose value
\* a get has just returned decrypted.
C14_Witness ==
    \E t \in ActiveTids(mode) :
        /\ h[ProcOf(t)].encryption
        /\ Returned(t, "get") /\ th[t].res \in PlainValues
        /\ segs[h[ProcOf(t)].shm].buf.back[th[t].key].present
        /\ segs[h[ProcOf(t)].shm].buf.back[th[t].key].v = Encrypt(th[t].res)

\* C15: through a read-only client every mutating operation fails with
\* ReadOnlyError and no operation writes the segment: no step of a thread
\* of that client changes a segment.
C15_ReadOnlyNeverWrites ==
    [][\A t \in ReadOnlyTids :
          /\ th'[t] # th[t] => segs' = segs
          /\ (th'[t].pc = "done" /\ th'[t].op \in {"set", "delete"}) =>
                th'[t].err = "ReadOnlyError"]_vars

\* The part of C15 that holds: the refused operations leave every segment
\* and the handle as they were.
RefusedLeavesSegment ==
    [][\A t \in ReadOnlyTids :
          (th[t].pc = "idle" /\ th'[t].err = "ReadOnlyError") =>
              (segs' = segs /\ h' = h)]_vars

\* C16: for every supported value v and every compress_threshold,
\* deserialize(serialize(v)) = v, compressed or not, in either format.
C16_RoundTrip ==
    ser.pc = "deserialized" => (ser.ok /\ ser.out = ser.obj)

\* What does hold: the round trip of every object but a tuple that the
\* compact format encoded.
RoundTripButTuple ==
    (ser.pc = "deserialized" /\ ~(ser.self.use_msgpack /\ ser.obj.t = "tuple"))
        => (ser.ok /\ ser.out = ser.obj)

\* C17: serialize compresses only when the raw payload is strictly longer
\* than compress_threshold: a payload of exactly compress_threshold bytes
\* is stored as it is, one of compress_threshold + 1 bytes is stored
\* compressed only if the compressed form is strictly shorter, and bit 0x80
\* of the framing byte is set exactly when the stored body is the
\* compressed form.
C17_CompressAboveThreshold ==
    ser.pc = "serialized" =>
        LET n == Len(ser.g_data)
            body == Tail(ser.blob)
            flag == HasFlag(ser.blob[1])
            threshold == ser.self.compress_threshold
        IN /\ flag <=> body = compress(ser.g_data)
           /\ ~flag <=> body = ser.g_data
           /\ flag => (n > threshold /\ Len(body) < n)
           /\ n = threshold => ~flag
           /\ n = threshold + 1 => (flag => Len(compress(ser.g_data)) < n)

\* A payload of exactly compress_threshold bytes that compression would
\* have made shorter has been stored as it is.
C17_Witness ==
    /\ ser.pc = "serialized"
    /\ Len(ser.g_data) = ser.self.compress_threshold
    /\ Len(compress(ser.g_data)) < Len(ser.g_data)
    /\ ~HasFlag(ser.blob[1])

\* One byte more than compress_threshold, stored compressed.
CompressedJustAbove ==
    /\ ser.pc = "serialized"
    /\ Len(ser.g_data) = ser.self.compress_threshold + 1
    /\ HasFlag(ser.blob[1])

\* C18: a Serializer with compress_threshold = 0 never compresses, one
\* with compress_threshold = -1 compresses whenever that makes the payload
\* shorter.
C18_ThresholdSentinels ==
    ser.pc = "serialized" =>
        /\ ser.self.compress_threshold = 0 => ~HasFlag(ser.blob[1])
        /\ (/\ ser.self.compress_threshold = 0 - 1
            /\ Len(compress(ser.g_data)) < Len(ser.g_data))
              => HasFlag(ser.blob[1])

\* What the code does with the two values: -1 never compresses, 0 compresses
\* whatever compression makes shorter.
ThresholdSentinelsSwapped ==
    ser.pc = "serialized" =>
        /\ ser.self.compress_threshold = 0 - 1 => ~HasFlag(ser.blob[1])
        /\ (/\ ser.self.compress_threshold = 0
            /\ Len(compress(ser.g_data)) < Len(ser.g_data))
              => HasFlag(ser.blob[1])

\* C19: keys_with_prefix(p) returns exactly the keys of the map read during
\* the call that start with p, each once, and all_keys() returns exactly
\* all the keys of that map.
C19_KeysListed ==
    \A t \in Tids :
        LET got == {th[t].klist[i] : i \in 1 .. Len(th[t].klist)} IN
        /\ Returned(t, "keys_with_prefix") =>
              /\ got = {k \in KeysOf(th[t].g_map) : StartsWith(k, th[t].prefix)}
              /\ Len(th[t].klist) = Cardinality(got)
        /\ Returned(t, "all_keys") =>
              /\ got = KeysOf(th[t].g_map)
              /\ Len(th[t].klist) = Cardinality(got)

\* What does hold: the list is without repetition and every key in it
\* starts with the prefix.
ListedKeysMatch ==
    \A t \in Tids :
        (th[t].pc = "done" /\ th[t].op \in {"keys_with_prefix", "all_keys"}) =>
            /\ \A i, j \in 1 .. Len(th[t].klist) :
                  th[t].klist[i] = th[t].klist[j] => i = j
            /\ \A i \in 1 .. Len(th[t].klist) :
                  StartsWith(th[t].klist[i], th[t].prefix)

\* C20: memory_usage() called after any sequence of operations of one
\* caller reports used_bytes = the L and capacity_bytes = the C of the
\* header of the segment the handle maps, with
\* 0 < used_bytes <= capacity_bytes <= max_bytes (before the first set as
\* well: the empty map has MapBase bytes).
C20_MemoryUsage ==
    \A t \in Tids :
        Returned(t, "memory_usage") =>
            LET u == th[t].usage
                sg == segs[h[ProcOf(t)].shm]
            IN /\ u.used_bytes = sg.L
               /\ u.capacity_bytes = sg.C
               /\ 0 < u.used_bytes
               /\ u.used_bytes <= u.capacity_bytes
               /\ u.capacity_bytes <= u.max_bytes

\* memory_usage() has returned after a set that expanded the segment.
C20_Witness ==
    \E t \in Tids :
        /\ Returned(t, "memory_usage")
        /\ KeysOf(gabs) # {}
        /\ th[t].usage.capacity_bytes > INITIAL_SIZE
        /\ th[t].usage.used_bytes > INITIAL_SIZE

\* C21: in every reachable state, for every segment name, at most one open
\* handle across all processes has the creator flag set.
C21_OneCreator ==
    \A p, q \in Procs :
        (p # q /\ h[p].open /\ h[q].open /\ h[p].shm_name = h[q].shm_name) =>
            ~(h[p].is_creator /\ h[q].is_creator)

\* What does hold of C21: a process that loses the race to create the
\* segment attaches with the creator flag unset.
LostRaceAttaches ==
    \A t \in Tids :
        (Returned(t, "open") /\ th[t].g_lost) =>
            (h[ProcOf(t)].open /\ ~h[ProcOf(t)].is_creator)

\* C22: after a process has expanded the pool's segment, a process that
\* opens the pool again by its name gets the records the expanding write
\* committed.  (Here the writer's set had returned before the open began,
\* no write to the key followed it, the writer's handle is still open, and
\* the get ran with no other operation in progress.)
C22_ReopenSeesExpansion ==
    \A t \in ActiveTids(mode) :
        LET e == th[t].g_exp IN
        (/\ Returned(t, "get") /\ th[t].g_solo
         /\ e.known /\ e.clean /\ e.p # ProcOf(t)
         /\ segs[e.seg].name # PoolName
         /\ h[ProcOf(t)].g_last[th[t].key] = e
         /\ h[e.p].open /\ h[e.p].shm = e.seg) =>
            th[t].res = e.v

\* C23: cleanup_expired is atomic for the other threads of the process: a
\* size or all_keys running concurrently computes its result from the map
\* before the cleanup removed anything or from the map after it removed
\* every expired record.  (The pool holds two records that expire together
\* and nothing sets a key: the result is both keys or none.)
C23_CleanupAtomic ==
    \A t \in Tids :
        /\ Returned(t, "size") => th[t].n \in {0, Cardinality(Keys)}
        /\ Returned(t, "all_keys") => Len(th[t].klist) \in {0, Cardinality(Keys)}

\* What does hold of C23: between the moment cleanup_expired takes the write
\* lock and the moment it releases it, no other thread reads the segment.
NoRefreshDuringCleanup ==
    \A t, u \in Tids :
        (t # u /\ ProcOf(t) = ProcOf(u) /\ th[t].op = "cleanup_expired"
           /\ th[t].pc \in {"rf_len", "rf_pay", "cl_scan", "cl_del", "wr_ser",
                            "wr_len", "wr_cap", "wr_front", "wr_back"}) =>
            th[u].pc \notin {"rf_len", "rf_pay"}

\* C24: an operation on key k never removes or changes the record of another
\* key k' that another process has committed: when set(k', v) has returned,
\* no set or delete of k' was called after it and no operation is in
\* progress, the segment holds k' with the value v.  (Each process has one
\* thread and its own key; the values are small, so both map one segment.)
C24_OtherKeysKept ==
    (\A t \in ActiveTids(mode) : ~Busy(t)) =>
        \A k \in Keys :
            glast[k].known =>
                LET sg == segs[h[glast[k].p].shm]
                    maps == IF sg.L = 0 THEN {EmptyMap}
                            ELSE DecodeOutcomes(sg.buf, sg.L)
                IN \A m \in maps : m[k].present /\ m[k].v = glast[k].v

\* What does hold of C24: the same, when no operation of the other process
\* overlapped the set (it ran alone and nothing has been called since).
KeptWhenAlone ==
    (\A t \in ActiveTids(mode) : ~Busy(t)) =>
        \A k \in Keys :
            (glast[k].known /\ glast[k].clean
               /\ \A j \in Keys \ {k} : ~glast[j].known) =>
                Stored(glast[k].p)[k].v = glast[k].v

\* The pool lock is held by thread t, in read or in write mode.
HoldsPool(t) ==
    t \in rw[ProcOf(t)].readers \/ rw[ProcOf(t)].writer = t

\* C25: a thread takes the stripe lock of its key before the pool lock: no
\* thread that is about to request a stripe lock holds the pool lock, in
\* read or in write mode.
C25_StripeBeforePool ==
    \A t \in Tids : th[t].pc = "stripe" => ~HoldsPool(t)

\* A thread holds the stripe lock of its key and, taken after it, the pool
\* lock in write mode.
C25_Witness ==
    \E t \in Tids :
        /\ stripes[ProcOf(t)][th[t].key].owner = t
        /\ rw[ProcOf(t)].writer = t
        /\ th[t].op \in {"set", "delete", "get"}

Acting(t) == th'[t] # th[t]

\* C27: the cached map of a process is replaced or mutated only by a thread
\* that holds the pool lock in write mode: every step that changes the
\* cached map is taken by the writer of the pool lock.
C27_MapUnderWriteLock ==
    [][\A p \in Procs :
          h'[p].data # h[p].data =>
              \E t \in Tids : ProcOf(t) = p /\ Acting(t) /\ rw[p].writer = t]_vars

\* What does hold of C27: the segment is written only by a thread that
\* holds the pool lock in write mode.
SegmentUnderWriteLock ==
    [][segs' # segs =>
          \E t \in Tids : Acting(t) /\ rw[ProcOf(t)].writer = t]_vars

\* C28: when decoding the payload fails during a refresh, the payload is
\* read a second time before the map is treated as empty: a refresh whose
\* decode failed has read the payload twice.
C28_RetryOnce ==
    \A t \in Tids : th[t].g_fail => th[t].g_reads = 2

\* What does hold of C28: a refresh whose decode fails leaves the empty map
\* in the cache, and a get that follows it returns absent.
FailedDecodeIsEmpty ==
    \A t \in Tids :
        /\ (th[t].g_fail /\ th[t].pc = "get_entry") => h[ProcOf(t)].data = EmptyMap
        /\ (th[t].g_fail /\ Returned(t, "get")) => th[t].res = Absent

\* A get returned absent after a failed decode although the set of the key
\* has returned meanwhile and the segment holds its record.
AbsentAfterTornRead ==
    \E t \in Tids :
        /\ th[t].g_fail /\ Returned(t, "get")
        /\ \A u \in Tids \ {t} : ~Busy(u)
        /\ Stored(ProcOf(t))[th[t].key].present

\* C29: reading the payload always yields a map, for any bytes another
\* process may have left in the segment: the empty map when the header
\* length is 0 or the bytes cannot be decoded, else the decoded map.
C29_ReadYieldsMap ==
    (mode = "rd" /\ ser.pc = "read") =>
        /\ ser.out.t = "dict"
        /\ (ser.length = 0 \/ ~deserialize(SubSeq(ser.blob, 1, ser.length)).ok)
              => ser.out = PyDict(<<>>)

\* What does hold of C29: when the bytes are a complete serialized map, the
\* read yields that map; when the length is 0 or the bytes are cut short,
\* it yields the empty map.
WrittenMapIsRead ==
    (mode = "rd" /\ ser.pc = "read") =>
        /\ (ser.obj.t = "dict" /\ ser.length = Len(ser.blob)) => ser.out = ser.obj
        /\ ser.length < Len(ser.blob) => ser.out = PyDict(<<>>)

\* C30: get(k) never surfaces a decode error: when the stored value cannot
\* be decoded (malformed hex after 'enc:', decryption failure, undecodable
\* serialized bytes) no exception leaves get and it returns absent (None).
C30_NoDecodeError ==
    (mode = "dec" /\ ser.pc = "got") =>
        LET enc_bytes == FromHex(SubSeq(ser.obj.x, 5, Len(ser.obj.x)))
            decrypted == decrypt_data(enc_bytes.b, ser.auth_key)
        IN /\ ser.err = "none"
           /\ (/\ ser.encryption /\ ser.obj.t = "str" /\ Len(ser.obj.x) >= 4
               /\ SubSeq(ser.obj.x, 1, 4) = EncPrefix
               /\ \/ ~enc_bytes.ok
                  \/ ~decrypted.ok
                  \/ ~deserialize(decrypted.d).ok) => ser.out = PyNone

\* What does hold of C30: a value stored by set through a handle that
\* encrypts is returned by get through a handle with the same key as the
\* object the serializer gives back, and a value that does not start with
\* 'enc:' is returned as stored, with no exception.
OwnValuesDecode ==
    (mode = "dec" /\ ser.pc = "got") =>
        /\ (ser.g_set /\ ser.g_enc /\ ser.encryption /\ ser.g_key = ser.auth_key) =>
              (ser.err = "none" /\ ser.out = deserialize(ser.blob).v)
        /\ (ser.g_set /\ ~ser.g_enc /\ ~ser.encryption) =>
              (ser.err = "none" /\ ser.out = ser.obj)

\* A get through a handle that encrypts has raised ValueError on a stored
\* str that starts with 'enc:' and goes on with something that is not hex.
MalformedHexRaises ==
    mode = "dec" /\ ser.pc = "got" /\ ser.err = "ValueError" /\ ~ser.g_set

\* C31: opening a pool never discards a record another process has
\* committed: when P has created the segment and written its initial empty
\* map, Q has attached and its set(k, v) has returned, and both have
\* finished, the segment holds k with the value v.
C31_OpenKeepsRecords ==
    (\A t \in ActiveTids(mode) : ~Busy(t) /\ h[ProcOf(t)].open) =>
        \A k \in Keys :
            (glast[k].known /\ \E p \in Procs : h[p].is_creator) =>
                LET sg == segs[h[glast[k].p].shm] IN
                /\ sg.L # 0
                /\ \A m \in DecodeOutcomes(sg.buf, sg.L) :
                      m[k].present /\ m[k].v = glast[k].v

\* What does hold of C31: the same, when the set was called after the open
\* of the creating process had returned.
KeptAfterOpenReturned ==
    (\A t \in ActiveTids(mode) : ~Busy(t) /\ h[ProcOf(t)].open) =>
        \A k \in Keys :
            (glast[k].known /\ glast[k].clean) =>
                Stored(glast[k].p)[k].v = glast[k].v

\* C32: every expansion creates its segment under a name no live segment
\* has: the creation of the new segment never fails with FileExistsError,
\* whichever process expands and whenever.
C32_UniqueExpansionNames ==
    \A t \in Tids : th[t].err # "FileExistsError"

\* The segments that are linked in segs and no longer in its successor.
Unlinked == {i \in 1 .. Len(segs) : segs[i].linked /\ ~segs'[i].linked}

\* C33: a segment is unlinked only by a handle whose creator flag is set.
\* A close() or an expansion by a non-creator leaves every segment linked;
\* the close() of the creator unlinks the segment it maps, and its
\* expansion unlinks the old segment.
C33_OnlyCreatorUnlinks ==
    [][\A t \in Tids :
          LET hd == h[ProcOf(t)] IN
          Acting(t) =>
              /\ ~hd.is_creator => Unlinked = {}
              /\ (hd.is_creator /\ th[t].pc = "unlink") => ~segs'[hd.shm].linked
              /\ (hd.is_creator /\ th[t].pc = "exp_close") =>
                    ~segs'[th[t].old_seg].linked]_vars

\* The non-creator has expanded and closed its handle: the segment it
\* left and the one it created are still linked.
C33_Witness ==
    \E t \in Tids :
        LET hd == h[ProcOf(t)] IN
        /\ ~hd.is_creator /\ ~hd.open /\ th[t].pc = "done"
        /\ th[t].op = "close"
        /\ hd.shm_name # PoolName
        /\ segs[hd.shm].linked
        /\ \E i \in 1 .. Len(segs) : segs[i].linked /\ segs[i].name = PoolName

\* C34: close() is idempotent with respect to the OS: a close() or a
\* finalization of a handle that has been closed before unlinks no segment.
C34_CloseIdempotent ==
    [][\A t \in Tids : (Acting(t) /\ th[t].g_again) => Unlinked = {}]_vars

\* What does hold of C34: a repeated close unlinks only a segment that
\* carries the name the handle was opened with or expanded to.
RepeatedCloseSameName ==
    [][\A t \in Tids :
          (Acting(t) /\ th[t].g_again) =>
              \A i \in Unlinked : segs[i].name = h[ProcOf(t)].shm_name]_vars

\* Every process has closed its handle and no operation is in progress.
AllClosed ==
    /\ \A p \in Procs : ~h[p].open
    /\ \A t \in Tids : ~Busy(t)

\* C35: no segment is leaked: once every process has closed its handle,
\* every segment they created, at open or by expansion, creator of the
\* original segment or not, has been unlinked.
C35_NoSegmentLeaked ==
    AllClosed => \A i \in 1 .. Len(segs) : ~segs[i].linked

\* What does hold of C35: the same, when the non-creator has not expanded
\* (the segments the creator made are all unlinked at its close).
CreatorLeaksNothing ==
    (AllClosed /\ \A p \in Procs : ~h[p].is_creator => h[p].shm_name = PoolName) =>
        \A i \in 1 .. Len(segs) : ~segs[i].linked

\* One thread of a process writes one-megabyte values, so that its saves
\* expand the segment, while a second thread of the same process calls
\* memory_usage() and size().
InitUse == InitFor("use", FALSE)
NextUse ==
    \E t \in ActiveTids("use") :
        CallAny(t) \/ AcqStripe(t) \/ Read(t) \/ SetPut(t) \/ SizeLen(t)
            \/ Usage(t) \/ Write(t) \/ Expand(t) \/ Return(t)
SpecUse == InitUse /\ [][NextUse]_vars

\* The segment whose buffer thread t touches in its next step, 0 if that
\* step touches none: _read_data and _write_data use self.shm as it is at
\* that step, memory_usage the object it loaded before.
Accessed(t) ==
    IF th[t].pc \in {"rf_len", "rf_pay", "wr_len", "wr_cap", "wr_front", "wr_back"}
    THEN h[ProcOf(t)].shm
    ELSE IF th[t].pc = "mu_len" THEN th[t].shm_ref
    ELSE 0

\* C36: no thread reads or writes the buffer of a segment that an expansion
\* in its process has already closed: whenever a thread is about to access a
\* segment buffer (get, set, delete, size, key listing, cleanup_expired,
\* memory_usage), that segment is the one the handle maps, or the old one
\* whose close() has not run yet.
C36_NoAccessAfterClose ==
    \A t \in Tids :
        Accessed(t) # 0 => ~ClosedByExpansion(ProcOf(t), Accessed(t))

\* The operations that read and write under the pool lock touch the mapped
\* segment only, and no expansion of their process is between its switch and
\* its close while they do.
LockedAccessOnMapped ==
    \A t \in Tids :
        th[t].pc \in {"rf_len", "rf_pay"} =>
            /\ Accessed(t) = h[ProcOf(t)].shm
            /\ \A u \in Tids :
                  ProcOf(u) = ProcOf(t) =>
                      th[u].pc \notin {"exp_switch", "exp_close"}

\* memory_usage() raised because the segment object it loaded was closed.
UsageOnClosedSegment ==
    \E t \in Tids : th[t].op = "memory_usage" /\ th[t].err = "TypeError"

\* One handle, one thread, every operation of the store on two keys, with
\* and without a ttl, while the clock advances.
InitFrm == InitFor("frm", FALSE)
NextFrm ==
    \/ \E t \in ActiveTids("frm") :
          CallAny(t) \/ AcqStripe(t) \/ Read(t) \/ Body(t) \/ Cleanup(t)
              \/ Usage(t) \/ PrefixList(t) \/ Write(t) \/ Return(t)
    \/ \E prefix \in Prefixes : CallPrefix(<<"P", 1>>, prefix)
    \/ Tick
SpecFrm == InitFrm /\ [][NextFrm]_vars

\* The record of the key of t's operation, in the map its refresh read, had
\* a ttl that had elapsed at the time the operation read the clock.
ReadExpired(t) ==
    LET e == th[t].g_map[th[t].key] IN
    e.present /\ e.auto_clean > 0 /\ th[t].g_t - e.timestamp > e.auto_clean

\* The step of thread t that changes a segment belongs to an operation
\* other than get and exists that removes or stores a record: a set, a
\* delete of a key its refresh found, a cleanup_expired that found an
\* expired record.
WritesByRemoval(t) ==
    \/ th[t].op = "set"
    \/ th[t].op = "delete" /\ th[t].g_map[th[t].key].present
    \/ th[t].op = "cleanup_expired"
          /\ \E k \in Keys :
                LET e == th[t].g_map[k] IN
                e.present /\ e.auto_clean > 0
                    /\ th[t].g_t - e.timestamp > e.auto_clean

\* C37 as stated: operations that remove nothing never write the segment:
\* no step of exists, size, all_keys, keys_with_prefix, memory_usage, of a
\* delete of an absent key or of a cleanup_expired without expired record
\* changes any segment, and a step of get(k) changes one only when the
\* record of k has expired.
C37_ReadersNeverWrite ==
    [][\A t \in Tids :
          (Acting(t) /\ segs' # segs) =>
              \/ WritesByRemoval(t)
              \/ th[t].op = "get" /\ ReadExpired(t)]_vars

\* C37 amended: exists(k) is get(k), so it writes the segment as get(k)
\* does, when the record of k has expired; every other step of an
\* operation that removes nothing leaves header and payload of every
\* segment unchanged.
C37_WritesOnlyOnRemoval ==
    [][\A t \in Tids :
          (Acting(t) /\ segs' # segs) =>
              \/ WritesByRemoval(t)
              \/ th[t].op \in {"get", "exists"} /\ ReadExpired(t)]_vars

\* get(k) has returned the value of a record with a ttl that the clock has
\* not passed yet, from a segment that holds the record.
C37_Witness ==
    \E t \in Tids :
        /\ Returned(t, "get")
        /\ th[t].ok
        /\ th[t].g_map[th[t].key].auto_clean > 0
        /\ th[t].g_t > th[t].g_map[th[t].key].timestamp
        /\ Stored(ProcOf(t))[th[t].key].present

\* exists(k) found the record of k expired and is writing the segment.
ExistsWrites ==
    \E t \in Tids :
        th[t].op = "exists" /\ th[t].pc = "wr_back" /\ ReadExpired(t)

\* The objects msgpack.packb rejects: a set (TypeError) and the ints 2^64
\* and 2^72 (OverflowError), next to some it accepts.
RejectedObjs ==
    {PySet(<<PyInt(1)>>), PySet(<<PyStr(<<97>>), PyStr(<<98>>)>>),
     PyLong(Rep(0, 8) \o <<1>>), PyLong(Rep(0, 9) \o <<1>>)}

\* A Serializer of any configuration is given objects that the compact
\* format rejects and objects it accepts.
InitFb ==
    /\ InitPool("fb", FALSE, EmptyMap, 0)
    /\ \E prefer_msgpack \in BOOLEAN : \E has_msgpack \in BOOLEAN :
          \E compress_threshold \in Thresholds :
              ser = [NoSer EXCEPT
                       !.self = Serializer(prefer_msgpack, compress_threshold,
                                           has_msgpack),
                       !.pc = "new"]
NextFb ==
    \/ \E obj \in RejectedObjs \cup {PyInt(5), PyList(<<>>)} : Serialize(obj)
    \/ Deserialize
SpecFb == InitFb /\ [][NextFb]_vars

\* C38: serialize never fails: for every value the compact encoder rejects,
\* whatever error it reports (type error, value error, integer out of
\* range), serialize returns bytes, and their framing byte carries the
\* format tag of the host-native format, 0x02.
C38_SerializeFallsBack ==
    (ser.pc \in {"serialized", "raised"} /\ ~packb(ser.obj).ok) =>
        /\ ser.err = "none"
        /\ ser.blob # <<>>
        /\ ClearFlag(ser.blob[1]) = PICKLE_HEADER

\* A value the compact encoder rejects with a TypeError is written in the
\* host-native format.
TypeErrorFallsBack ==
    (ser.pc \in {"serialized", "raised"} /\ packb(ser.obj).err = "TypeError") =>
        /\ ser.err = "none"
        /\ ser.blob # <<>>
        /\ ClearFlag(ser.blob[1]) = PICKLE_HEADER
        /\ Encoded(ser.self, ser.obj).data = dumps(ser.obj)

\* serialize raised OverflowError on an int that does not fit 64 bits.
SerializeRaised ==
    ser.pc = "raised" /\ ser.err = "OverflowError" /\ ser.obj.t = "long"

\* One handle, encrypting or not, one thread: set of values that are None
\* and values that are not, exists, get, delete, size and all_keys.
InitNul == \E enc \in BOOLEAN : InitFor("nul", enc)
NextNul ==
    \E t \in ActiveTids("nul") :
        CallAny(t) \/ AcqStripe(t) \/ Read(t) \/ KeyBody(t) \/ MapBody(t)
            \/ Write(t) \/ Return(t)
SpecNul == InitNul /\ [][NextNul]_vars

\* C39: exists(k) agrees with the key listing: when exists(k) returns, its
\* result is true exactly when k is among the keys all_keys() lists and
\* size() counts, and it is true after a set(k, v) of any value v, the null
\* value included, that no delete followed.
C39_ExistsAgreesWithKeys ==
    \A t \in Tids :
        Returned(t, "exists") =>
            LET k == th[t].key
                listed == \E i \in 1 .. Len(ListOf(Stored(ProcOf(t)), <<>>)) :
                              ListOf(Stored(ProcOf(t)), <<>>)[i] = k
            IN /\ th[t].ok <=> listed
               /\ gabs[k].present => (th[t].ok /\ listed)

\* exists(k) agrees with the listing for every key whose value is not None.
ExistsAgreesUnlessNone ==
    \A t \in Tids :
        (Returned(t, "exists") /\ gabs[th[t].key].v # Absent) =>
            (th[t].ok <=> th[t].key \in KeysOf(Stored(ProcOf(t))))

\* all_keys() and size() list and count the keys that were set and not
\* deleted, those with the value None too.
NoneIsListed ==
    \A t \in Tids :
        /\ Returned(t, "all_keys") =>
              {th[t].klist[i] : i \in 1 .. Len(th[t].klist)} = KeysOf(gabs)
        /\ Returned(t, "size") => th[t].n = Cardinality(KeysOf(gabs))

\* exists(k) returned false for a key that holds the value None.
ExistsFalseOnNone ==
    \E t \in Tids :
        /\ Returned(t, "exists") /\ ~th[t].ok
        /\ gabs[th[t].key].present /\ gabs[th[t].key].v = Absent
        /\ h[ProcOf(t)].encryption
====
